---- MODULE Spec2Model ----
(***************************************************************************)
(* A model of the asset ingestion and slot binding pipeline of the         *)
(* character showcase: the key normalizer and archive resolver             *)
(* (loaders/fbxPackLoader.ts), the runtime ZIP loader                      *)
(* (parseRuntimeZipAsset), the pack registry (characters/library.ts) and   *)
(* the per-slot animation binder (CharacterSlot).                          *)
(*                                                                         *)
(* Strings whose characters matter (paths, labels, ids) are sequences of   *)
(* one-character strings; strings that are only compared for equality      *)
(* (skeleton signatures, error messages) are TLA+ strings.                 *)
(***************************************************************************)
EXTENDS Integers, Sequences, FiniteSets, TLC

VARIABLES
    \* ---- CharacterSlot (one slot) ----
    modelRoot,            \* index of the pack whose clone is attached, or NoModel
    mixer,                \* TRUE iff this.mixer !== null
    modelPackId,          \* this.modelPackId ("" when empty)
    skeletonSignature,    \* this.skeletonSignature (NULL or a string)
    animationOptions,     \* Map<string, AnimationOption> in insertion order
    actions,              \* Map<string, AnimationAction>: clip id -> action (named by its clip)
    mixerActions,         \* the mixer's actions: clip -> [state, fade]
    attachedClipPackIds,  \* Set<string>
    activeClipId,         \* this.activeClipId (NoClip when "")
    slotCall,             \* the last CharacterSlot call: its arguments, pre-state and result
    \* ---- normalizeAssetKey applied once and twice ----
    normInput,            \* the input string
    normOnce,             \* normalizeAssetKey(input)
    normTwice,            \* normalizeAssetKey(normalizeAssetKey(input))
    normPc,               \* "idle", "input", "once", "twice"
    \* ---- parseRuntimeZipAsset (one call) ----
    zipFileOk,            \* the file is a readable archive
    zipArchive,           \* zip.files: the entries [name, dir] in archive order
    zipPc,                \* where the call stands
    zipIndex,             \* the position of the extraction loop in allEntries
    blobUrls,             \* blobUrls: <<key, url>> pairs in insertion order
    entryUrls,            \* the object URL created for each extracted entry
    urlsToRevoke,         \* urlsToRevoke
    urlRevocations,       \* times URL.revokeObjectURL was called, per object URL
    zipThrown,            \* the error thrown inside the try block (NULL if none)
    zipError,             \* the error that reached the caller (NULL if none)
    zipResult,            \* the RuntimeZipLoadResult (NULL until returned)
    zipRevokeCalls,       \* calls of the returned revoke()
    zipResolve,           \* the last URL-modifier call: [request, result]
    \* ---- CharacterLibrary ----
    modelEntries,         \* modelEntries: PackEntry[]
    clipEntries,          \* clipEntries: PackEntry[]
    modelCache,           \* modelCache: id -> LoadedFbxPack
    clipCache,            \* clipCache: id -> LoadedFbxPack
    runtimeRevokers,      \* runtimeRevokers: <<id, callback>> pairs in insertion order
    runtimeCounter,       \* runtimeCounter
    callbacks,            \* the release callbacks: [calls, throws, disposedBefore]
    loads,                \* the loadModelPack / loadClipPack calls, in call order
    disposeCalls,         \* calls of dispose()
    libCall,              \* the last registerRuntimePack or dispose call
    \* ---- computeSkeletonSignature applied to two scene graphs ----
    sigGraphs,            \* the two graphs: [skinnedMeshes, boneNodes] each
    sigResults,           \* the signature computed for each graph
    sigPc,                \* "idle", "input", "first", "second"
    \* ---- blobHasZipSignature (one call) ----
    sniffBlob,            \* the bytes of the blob
    sniffResult,          \* the value the call resolved with
    sniffPc,              \* "idle", "input", "done"
    \* ---- responseToZipFile (one call) ----
    response,             \* the response, where the call stands and its outcome
    \* ---- resolveBlobUrl (one call) ----
    resolve,              \* the table, the request and the value returned
    \* ---- the mounted app (mountApp) ----
    app,                  \* slots, selection, pending model loads
    \* ---- the stage's loadHdri ----
    hdri                  \* object URLs, retained HDRI state, where the call stands

slotVars == <<modelRoot, mixer, modelPackId, skeletonSignature, animationOptions,
              actions, mixerActions, attachedClipPackIds, activeClipId, slotCall>>

normVars == <<normInput, normOnce, normTwice, normPc>>

zipVars == <<zipFileOk, zipArchive, zipPc, zipIndex, blobUrls, entryUrls, urlsToRevoke,
             urlRevocations, zipThrown, zipError, zipResult, zipRevokeCalls, zipResolve>>

libVars == <<modelEntries, clipEntries, modelCache, clipCache, runtimeRevokers,
             runtimeCounter, callbacks, loads,
             disposeCalls, libCall>>

sigVars == <<sigGraphs, sigResults, sigPc>>

sniffVars == <<sniffBlob, sniffResult, sniffPc>>

vars == <<slotVars, normVars, zipVars, libVars, sigVars, sniffVars, response, resolve, app, hdri>>

\* What the operations of one component leave alone: the other components.
notSlot == <<normVars, zipVars, libVars, sigVars, sniffVars, response, resolve, app, hdri>>
notNorm == <<slotVars, zipVars, libVars, sigVars, sniffVars, response, resolve, app, hdri>>
notZip == <<slotVars, normVars, libVars, sigVars, sniffVars, response, resolve, app, hdri>>
notLib == <<slotVars, normVars, zipVars, sigVars, sniffVars, response, resolve, app, hdri>>
notSig == <<slotVars, normVars, zipVars, libVars, sniffVars, response, resolve, app, hdri>>
notSniff == <<slotVars, normVars, zipVars, libVars, sigVars, response, resolve, app, hdri>>
notResponse == <<slotVars, normVars, zipVars, libVars, sigVars, sniffVars, resolve, app, hdri>>
notApp == <<slotVars, normVars, zipVars, libVars, sigVars, sniffVars, response, resolve, hdri>>
notResolve == <<slotVars, normVars, zipVars, libVars, sigVars, sniffVars, response, app, hdri>>
notHdri == <<slotVars, normVars, zipVars, libVars, sigVars, sniffVars, response, resolve, app>>

NULL == "<null>"

\* modelRoot === null (pack indices start at 1)
NoModel == 0

(***************************************************************************)
(* Characters and strings as sequences of characters.                      *)
(***************************************************************************)

\* The collation rank of a character: whitespace and punctuation before
\* digits before letters, letters alphabetically (String.localeCompare).
CharRank(c) ==
    CASE c = " " -> 0
      [] c = "-" -> 1
      [] c = "1" -> 10
      [] c = "2" -> 11
      [] c = "3" -> 12
      [] c = "a" -> 20
      [] c = "b" -> 21
      [] c = "C" -> 22
      [] c = "i" -> 28
      [] c = "l" -> 31
      [] c = "p" -> 35
      [] c = "w" -> 42
      [] OTHER   -> 50

\* a.localeCompare(b): negative, zero or positive.
RECURSIVE localeCompare(_, _)
localeCompare(a, b) ==
    IF a = <<>> /\ b = <<>> THEN 0
    ELSE IF a = <<>> THEN -1
    ELSE IF b = <<>> THEN 1
    ELSE IF CharRank(Head(a)) < CharRank(Head(b)) THEN -1
    ELSE IF CharRank(Head(a)) > CharRank(Head(b)) THEN 1
    ELSE localeCompare(Tail(a), Tail(b))

IsWhitespace(c) == c = " "

RECURSIVE TrimStart(_)
TrimStart(s) ==
    IF s # <<>> /\ IsWhitespace(Head(s)) THEN TrimStart(Tail(s)) ELSE s

RECURSIVE TrimEnd(_)
TrimEnd(s) ==
    IF s # <<>> /\ IsWhitespace(s[Len(s)]) THEN TrimEnd(SubSeq(s, 1, Len(s) - 1)) ELSE s

\* String.prototype.trim
Trim(s) == TrimEnd(TrimStart(s))

\* The decimal digits of a small non-negative integer.
Digit(n) == CASE n = 0 -> "0" [] n = 1 -> "1" [] n = 2 -> "2" [] n = 3 -> "3"
              [] n = 4 -> "4" [] n = 5 -> "5" [] n = 6 -> "6" [] n = 7 -> "7"
              [] n = 8 -> "8" [] OTHER -> "9"

RECURSIVE NumberToString(_)
NumberToString(n) ==
    IF n < 10 THEN <<Digit(n)>> ELSE NumberToString(n \div 10) \o <<Digit(n % 10)>>

(***************************************************************************)
(* LoadedFbxPack objects handed to a slot.  A pack is named by its index   *)
(* (object identity); a clip is named by <<pack index, position>>.         *)
(***************************************************************************)

SigHead == "hip|spine|head"
SigNeck == "hip|spine|neck"

\* clips: the clip names, in the pack's order (clip.name; <<>> is an unnamed clip)
PackObjs == <<
    [skeletonSignature |-> SigHead, clips |-> << <<"b">>, <<"a">> >>],
    [skeletonSignature |-> SigNeck, clips |-> << <<"a">> >>],
    [skeletonSignature |-> NULL,    clips |-> << <<" ">> >>],
    [skeletonSignature |-> SigHead, clips |-> << >>],
    [skeletonSignature |-> SigHead, clips |-> << <<"w">> >>] >>

PackIdx == 1..Len(PackObjs)

ModelPackIds == {"m1", "m2"}
ClipPackIds  == {"c1", "c2"}

\* entry.label of the clip pack entry with that id: two entries may carry
\* the same label
ClipPackLabel(id) == <<"a">>

NoClip == <<>>

ClipId(source, packId, i) == <<source, packId, i>>

\* clip.name?.trim() || `Clip ${i + 1}`
ClipLabel(name, i) ==
    IF Trim(name) # <<>> THEN Trim(name)
    ELSE <<"C", "l", "i", "p", " ">> \o NumberToString(i + 1)

(***************************************************************************)
(* CharacterSlot                                                           *)
(***************************************************************************)

Put(f, k, v) == [x \in (DOMAIN f) \cup {k} |-> IF x = k THEN v ELSE f[x]]

EmptyMap == [x \in {} |-> NULL]

\* The 0.2 s cross-fade of playClip, in update ticks of 0.1 s.
CrossFadeTicks == 2

\* The largest deltaTime of one update() call, in ticks.
MaxDelta == 2

IdleAction == [state |-> "stopped", fade |-> 0]

\* mixer.clipAction(clip); action.enabled = true: one action per clip and
\* root, created on first use; enabling an action that had faded out lets
\* it play again.
clipAction(mix, clip) ==
    IF clip \notin DOMAIN mix THEN Put(mix, clip, IdleAction)
    ELSE IF mix[clip].state = "faded" THEN Put(mix, clip, [state |-> "playing", fade |-> 0])
    ELSE mix

\* Boolean(this.skeletonSignature && signature && this.skeletonSignature === signature)
isCompatibleClipPack_NoEquality(slotSignature, signature) ==
    /\ slotSignature # NULL /\ slotSignature # ""
    /\ signature # NULL /\ signature # ""

isCompatibleClipPack(slotSignature, signature) ==
    /\ slotSignature # NULL /\ slotSignature # ""
    /\ signature # NULL /\ signature # ""
    /\ slotSignature = signature

\* The comparator of getAnimationOptions: model clips first, then by label.
OptionCompare_LabelOnly(a, b) == localeCompare(a.label, b.label)

OptionCompare(a, b) ==
    LET aOrder == IF a.source = "model" THEN 0 ELSE 1
        bOrder == IF b.source = "model" THEN 0 ELSE 1
    IN  IF aOrder # bOrder THEN aOrder - bOrder ELSE localeCompare(a.label, b.label)

\* Array.prototype.sort is stable: an element goes after the elements that
\* do not compare greater than it.
RECURSIVE InsertSorted(_, _)
InsertSorted(sorted, x) ==
    IF sorted = <<>> THEN <<x>>
    ELSE IF OptionCompare(Head(sorted), x) > 0 THEN <<x>> \o sorted
    ELSE <<Head(sorted)>> \o InsertSorted(Tail(sorted), x)

RECURSIVE SortOptions(_)
SortOptions(opts) ==
    IF opts = <<>> THEN <<>>
    ELSE InsertSorted(SortOptions(SubSeq(opts, 1, Len(opts) - 1)), opts[Len(opts)])

\* [...this.animationOptions.values()] and options.sort(...)
getAnimationOptions_Unsorted(opts) == opts

getAnimationOptions(opts) == SortOptions(opts)

HasOption(opts, id) == \E k \in 1..Len(opts) : opts[k].id = id

\* if (!next) return false
playUnknown_Stops(mix, active) ==
    [ret |-> FALSE, mixerActions |-> [c \in DOMAIN mix |-> IdleAction],
     activeClipId |-> NoClip]

playUnknown(mix, active) ==
    [ret |-> FALSE, mixerActions |-> mix, activeClipId |-> active]

\* if (previous === next) return true
playSame_Restarts(mix, active, next) ==
    [ret |-> TRUE, mixerActions |-> [c \in DOMAIN mix |->
                                        IF c = next THEN [state |-> "playing", fade |-> 0]
                                        ELSE IdleAction],
     activeClipId |-> active]

playSame(mix, active, next) ==
    [ret |-> TRUE, mixerActions |-> mix, activeClipId |-> active]

\* playClip(clipId, immediate): [ret, mixerActions, activeClipId]
playClip(acts, mix, active, clipId, immediate) ==
    IF clipId \notin DOMAIN acts
    THEN playUnknown(mix, active)
    ELSE
      LET next == acts[clipId]
          hasPrevious == active \in DOMAIN acts
      IN  IF hasPrevious /\ acts[active] = next
          THEN playSame(mix, active, next)
          ELSE IF hasPrevious /\ ~immediate
          THEN \* next.reset().play(); next.crossFadeFrom(previous, 0.2, true)
               [ret |-> TRUE,
                mixerActions |->
                    Put(Put(mix, next, [state |-> "playing", fade |-> 0]),
                        acts[active], [state |-> "fading", fade |-> CrossFadeTicks]),
                activeClipId |-> clipId]
          ELSE \* previous.stop() when there is one; next.reset().play()
               [ret |-> TRUE,
                mixerActions |->
                    Put(IF hasPrevious THEN Put(mix, acts[active], IdleAction) ELSE mix,
                        next, [state |-> "playing", fade |-> 0]),
                activeClipId |-> clipId]

\* The options and actions loadModelPack registers for the pack's own clips.
ModelOptions(packId, p) ==
    [i \in 1..Len(PackObjs[p].clips) |->
        [id |-> ClipId("model", packId, i - 1),
         label |-> ClipLabel(PackObjs[p].clips[i], i - 1),
         clip |-> <<p, i - 1>>,
         source |-> "model",
         packId |-> packId]]

\* this.actions.set(clipId, action), once per clip of the pack
ModelActions_FirstClipOnly(packId, p) ==
    [id \in {ClipId("model", packId, i - 1) : i \in 1..Len(PackObjs[p].clips)}
                \cap {ClipId("model", packId, 0)} |->
        <<p, id[3]>>]

ModelActions(packId, p) ==
    [id \in {ClipId("model", packId, i - 1) : i \in 1..Len(PackObjs[p].clips)} |->
        <<p, id[3]>>]

ModelMixer(p) ==
    [c \in {<<p, i - 1>> : i \in 1..Len(PackObjs[p].clips)} |-> IdleAction]

\* The loop of attachClipPack from clip i on: [opts, acts, mix, added]
RECURSIVE AttachLoop(_, _, _, _, _, _, _, _)
AttachLoop(opts, acts, mix, packId, label, p, i, added) ==
    IF i >= Len(PackObjs[p].clips)
    THEN [opts |-> opts, acts |-> acts, mix |-> mix, added |-> added]
    ELSE
      LET clipId == ClipId("clip", packId, i)
          clipName == ClipLabel(PackObjs[p].clips[i + 1], i)
      IN  IF HasOption(opts, clipId)
          THEN AttachLoop(opts, acts, mix, packId, label, p, i + 1, added)
          ELSE AttachLoop(
                 Append(opts, [id |-> clipId,
                               label |-> label \o <<" ", "-", " ">> \o clipName,
                               clip |-> <<p, i>>,
                               source |-> "clip_pack",
                               packId |-> packId]),
                 Put(acts, clipId, <<p, i>>),
                 clipAction(mix, <<p, i>>),
                 packId, label, p, i + 1, Append(added, clipId))

\* this.animationOptions.clear() and the loop over pack.clips
loadModelPackOptions_NotCleared(previous, packId, p) == previous \o ModelOptions(packId, p)

loadModelPackOptions(previous, packId, p) == ModelOptions(packId, p)

NoCall == [op |-> "none"]

SlotInit ==
    /\ modelRoot = NoModel
    /\ mixer = FALSE
    /\ modelPackId = ""
    /\ skeletonSignature = NULL
    /\ animationOptions = <<>>
    /\ actions = EmptyMap
    /\ mixerActions = EmptyMap
    /\ attachedClipPackIds = {}
    /\ activeClipId = NoClip
    /\ slotCall = NoCall

\* this.attachedClipPackIds.clear()
clearAttached_Kept(attached) == attached

clearAttached(attached) == {}

\* loadModelPack(modelPackId, modelLabel, pack): clearModel(), then the
\* clone, the mixer, one option and action per clip, and the first option
\* of getAnimationOptions() played immediately.
SlotLoadModelPack ==
    /\ \E id \in ModelPackIds, p \in PackIdx :
           LET opts == loadModelPackOptions(animationOptions, id, p)
               acts == ModelActions(id, p)
               sorted == getAnimationOptions(opts)
               played == IF sorted # <<>>
                         THEN playClip(acts, ModelMixer(p), NoClip, sorted[1].id, TRUE)
                         ELSE [ret |-> FALSE, mixerActions |-> ModelMixer(p),
                               activeClipId |-> NoClip]
           IN  /\ modelRoot' = p
               /\ mixer' = TRUE
               /\ modelPackId' = id
               /\ skeletonSignature' = PackObjs[p].skeletonSignature
               /\ animationOptions' = opts
               /\ actions' = acts
               /\ attachedClipPackIds' = clearAttached(attachedClipPackIds)
               /\ mixerActions' = played.mixerActions
               /\ activeClipId' = played.activeClipId
               /\ slotCall' = [op |-> "loadModelPack", packId |-> id, pack |-> p,
                               replaced |-> modelPackId,
                               hadAttached |-> attachedClipPackIds]
    /\ UNCHANGED notSlot

\* loadModelPack when cloning the pack or preparing the clone throws:
\* clearModel() has run and nothing of the new model is in place.
SlotLoadModelPackThrows ==
    /\ \E id \in ModelPackIds, p \in PackIdx :
           /\ modelRoot' = NoModel
           /\ mixer' = FALSE
           /\ modelPackId' = ""
           /\ skeletonSignature' = NULL
           /\ animationOptions' = <<>>
           /\ actions' = EmptyMap
           /\ mixerActions' = EmptyMap
           /\ attachedClipPackIds' = clearAttached(attachedClipPackIds)
           /\ activeClipId' = NoClip
           /\ slotCall' = [op |-> "loadModelPackThrew", packId |-> id, pack |-> p,
                           replaced |-> modelPackId]
    /\ UNCHANGED notSlot

\* The two early returns of attachClipPack.
attachRefused_IgnoreAttached(hasMixer, attached, packId, slotSignature, signature) ==
    \/ ~hasMixer
    \/ ~isCompatibleClipPack(slotSignature, signature)

attachRefused(hasMixer, attached, packId, slotSignature, signature) ==
    \/ ~hasMixer
    \/ packId \in attached
    \/ ~isCompatibleClipPack(slotSignature, signature)

\* attachClipPack(packId, label, clipPack)
SlotAttachClipPack ==
    /\ \E id \in ClipPackIds, p \in PackIdx :
           LET label == ClipPackLabel(id)
               refused == attachRefused(mixer, attachedClipPackIds, id, skeletonSignature,
                                        PackObjs[p].skeletonSignature)
               loop == AttachLoop(animationOptions, actions, mixerActions,
                                  id, label, p, 0, <<>>)
               call(ret) == [op |-> "attachClipPack", packId |-> id, pack |-> p,
                             hadMixer |-> mixer,
                             wasAttached |-> id \in attachedClipPackIds,
                             slotSignature |-> skeletonSignature,
                             packSignature |-> PackObjs[p].skeletonSignature,
                             ret |-> ret]
           IN  IF refused
               THEN /\ slotCall' = call(<<>>)
                    /\ UNCHANGED <<modelRoot, mixer, modelPackId, skeletonSignature,
                                   animationOptions, actions, mixerActions,
                                   attachedClipPackIds, activeClipId>>
               ELSE /\ animationOptions' = loop.opts
                    /\ actions' = loop.acts
                    /\ mixerActions' = loop.mix
                    /\ attachedClipPackIds' =
                           IF Len(loop.added) > 0 THEN attachedClipPackIds \cup {id}
                           ELSE attachedClipPackIds
                    /\ slotCall' = call(loop.added)
                    /\ UNCHANGED <<modelRoot, mixer, modelPackId, skeletonSignature,
                                   activeClipId>>
    /\ UNCHANGED notSlot

\* The clip ids a caller may pass to playClip: registered or not.
MaxClips == 2

PlayableIds ==
    {ClipId("model", id, i) : id \in ModelPackIds, i \in 0..(MaxClips - 1)}
        \cup {ClipId("clip", id, i) : id \in ClipPackIds, i \in 0..(MaxClips - 1)}

\* playClip(clipId, immediate)
SlotPlayClip ==
    /\ \E clipId \in PlayableIds, immediate \in BOOLEAN :
           LET played == playClip(actions, mixerActions, activeClipId, clipId, immediate)
           IN  /\ mixerActions' = played.mixerActions
               /\ activeClipId' = played.activeClipId
               /\ slotCall' = [op |-> "playClip", clipId |-> clipId,
                               immediate |-> immediate, ret |-> played.ret]
               /\ UNCHANGED <<modelRoot, mixer, modelPackId, skeletonSignature,
                              animationOptions, actions, attachedClipPackIds>>
    /\ UNCHANGED notSlot

\* mixer.update(deltaTime): a fading action loses weight and is disabled
\* when its fade has run out.
mixerUpdate(mix, dt) ==
    [c \in DOMAIN mix |->
        IF mix[c].state # "fading" THEN mix[c]
        ELSE IF mix[c].fade <= dt THEN [state |-> "faded", fade |-> 0]
        ELSE [state |-> "fading", fade |-> mix[c].fade - dt]]

\* update(deltaTime): no-op without a mixer
SlotUpdate ==
    /\ \E dt \in 1..MaxDelta :
           /\ mixer
           /\ mixerActions' = mixerUpdate(mixerActions, dt)
           /\ slotCall' = [op |-> "update", dt |-> dt]
           /\ UNCHANGED <<modelRoot, mixer, modelPackId, skeletonSignature,
                          animationOptions, actions, attachedClipPackIds, activeClipId>>
    /\ UNCHANGED notSlot

\* dispose(): clearModel() and removal from the parent
SlotDispose ==
    /\ modelRoot' = NoModel
    /\ mixer' = FALSE
    /\ modelPackId' = ""
    /\ skeletonSignature' = NULL
    /\ animationOptions' = <<>>
    /\ actions' = EmptyMap
    /\ mixerActions' = EmptyMap
    /\ attachedClipPackIds' = {}
    /\ activeClipId' = NoClip
    /\ slotCall' = [op |-> "dispose"]
    /\ UNCHANGED notSlot

SlotNext ==
    \/ SlotLoadModelPack
    \/ SlotLoadModelPackThrows
    \/ SlotAttachClipPack
    \/ SlotPlayClip
    \/ SlotUpdate
    \/ SlotDispose

(***************************************************************************)
(* Key normalizer and archive resolver (loaders/fbxPackLoader.ts)          *)
(***************************************************************************)

LowerLetters == <<"a", "b", "c", "d", "e", "f", "g", "h", "i", "j", "k", "l", "m",
                  "n", "o", "p", "q", "r", "s", "t", "u", "v", "w", "x", "y", "z">>

UpperLetters == <<"A", "B", "C", "D", "E", "F", "G", "H", "I", "J", "K", "L", "M",
                  "N", "O", "P", "Q", "R", "S", "T", "U", "V", "W", "X", "Y", "Z">>

LowerCase == {LowerLetters[k] : k \in 1..Len(LowerLetters)}

UpperCase == {UpperLetters[k] : k \in 1..Len(UpperLetters)}

ToLowerChar(c) ==
    IF c \in UpperCase
    THEN LowerLetters[CHOOSE k \in 1..Len(UpperLetters) : UpperLetters[k] = c]
    ELSE c

\* [a-z] under the i flag
IsAsciiLetter(c) == c \in UpperCase \cup LowerCase

\* String.prototype.toLowerCase
ToLowerCase(s) == [k \in 1..Len(s) |-> ToLowerChar(s[k])]

Drop(s, n) == SubSeq(s, n + 1, Len(s))

StartsWith(s, prefix) ==
    Len(s) >= Len(prefix) /\ SubSeq(s, 1, Len(prefix)) = prefix

EndsWith(s, suffix) ==
    Len(s) >= Len(suffix) /\ SubSeq(s, Len(s) - Len(suffix) + 1, Len(s)) = suffix

\* s.lastIndexOf(pattern), 0-based, -1 when absent
LastIndexOf(s, pattern) ==
    LET hits == {k \in 1..(Len(s) - Len(pattern) + 1) :
                    SubSeq(s, k, k + Len(pattern) - 1) = pattern}
    IN  IF hits = {} THEN -1 ELSE (CHOOSE k \in hits : \A j \in hits : j <= k) - 1

\* s.split(c)[0]
BeforeFirst(s, c) ==
    LET hits == {k \in 1..Len(s) : s[k] = c}
    IN  IF hits = {} THEN s
        ELSE SubSeq(s, 1, (CHOOSE k \in hits : \A j \in hits : k <= j) - 1)

\* s.split("/").pop()
LastSegment(s) == Drop(s, LastIndexOf(s, <<"/">>) + 1)

RECURSIVE DropLeadingSlashes(_)
DropLeadingSlashes(s) ==
    IF s # <<>> /\ Head(s) = "/" THEN DropLeadingSlashes(Tail(s)) ELSE s

\* .replace(/\\/g, "/")
ReplaceBackslashes(s) == [k \in 1..Len(s) |-> IF s[k] = "\\" THEN "/" ELSE s[k]]

\* .replace(/^\.?\//, "")
StripDotSlash(s) ==
    IF StartsWith(s, <<".", "/">>) THEN Drop(s, 2)
    ELSE IF StartsWith(s, <<"/">>) THEN Drop(s, 1)
    ELSE s

\* .replace(/^[a-z]:\//i, "")
StripDrive(s) ==
    IF Len(s) >= 3 /\ IsAsciiLetter(s[1]) /\ s[2] = ":" /\ s[3] = "/" THEN Drop(s, 3) ELSE s

\* .replace(/^file:\/+/i, "")
StripFileScheme(s) ==
    IF Len(s) >= 6 /\ ToLowerCase(SubSeq(s, 1, 5)) = <<"f", "i", "l", "e", ":">> /\ s[6] = "/"
    THEN DropLeadingSlashes(Drop(s, 5))
    ELSE s

\* .replace(/^\//, "")
StripSlash(s) == IF StartsWith(s, <<"/">>) THEN Drop(s, 1) ELSE s

normalizeAssetKey(input) ==
    ToLowerCase(Trim(StripSlash(StripFileScheme(StripDrive(StripDotSlash(
        ReplaceBackslashes(input)))))))

HexDigits == {"0", "1", "2", "3", "4", "5", "6", "7", "8", "9",
              "a", "b", "c", "d", "e", "f", "A", "B", "C", "D", "E", "F"}

\* The character of a %XY escape; NULL for a byte that is no character on
\* its own (decodeURIComponent throws).
EscapedChar(x, y) ==
    CASE x = "2" /\ y = "0" -> " "
      [] x = "2" /\ y = "3" -> "#"
      [] x = "2" /\ y = "5" -> "%"
      [] x = "2" /\ ToLowerChar(y) = "e" -> "."
      [] x = "2" /\ ToLowerChar(y) = "f" -> "/"
      [] x = "3" /\ ToLowerChar(y) = "a" -> ":"
      [] x = "3" /\ ToLowerChar(y) = "f" -> "?"
      [] x = "4" /\ y = "1" -> "A"
      [] x = "6" /\ y = "1" -> "a"
      [] OTHER -> NULL

\* The outcome of a decodeURIComponent call that throws URIError.
URIError == <<"<URIError>">>

\* decodeURIComponent(value), or URIError when it throws
RECURSIVE decodeURIComponent(_)
decodeURIComponent(s) ==
    IF s = <<>> THEN <<>>
    ELSE IF Head(s) # "%"
    THEN LET rest == decodeURIComponent(Tail(s))
         IN  IF rest = URIError THEN URIError ELSE <<Head(s)>> \o rest
    ELSE IF Len(s) < 3 \/ s[2] \notin HexDigits \/ s[3] \notin HexDigits
              \/ EscapedChar(s[2], s[3]) = NULL
    THEN URIError
    ELSE LET rest == decodeURIComponent(Drop(s, 3))
         IN  IF rest = URIError THEN URIError ELSE <<EscapedChar(s[2], s[3])>> \o rest

safeDecode(value) ==
    IF decodeURIComponent(value) = URIError THEN value ELSE decodeURIComponent(value)

(* blobUrls: Record<string, string> as the sequence of its <<key, url>>     *)
(* pairs in insertion order (Object.entries).                              *)
HasKey(table, key) == \E k \in 1..Len(table) : table[k][1] = key

Lookup(table, key) == table[CHOOSE k \in 1..Len(table) : table[k][1] = key][2]

\* table[key] = url
SetKey(table, key, url) ==
    IF HasKey(table, key)
    THEN [k \in 1..Len(table) |-> IF table[k][1] = key THEN <<key, url>> ELSE table[k]]
    ELSE Append(table, <<key, url>>)

\* The lower-case property names every object literal inherits from
\* Object.prototype, and what reading one of them yields.
ObjectPrototypeKeys ==
    {<<"c", "o", "n", "s", "t", "r", "u", "c", "t", "o", "r">>,
     <<"_", "_", "p", "r", "o", "t", "o", "_", "_">>}

InheritedMember == <<"<member of Object.prototype>">>

\* blobUrls[key]: the own property, else the inherited one, else undefined
\* (<<>>, which is falsy as the empty string is)
GetProperty(table, key) ==
    IF HasKey(table, key) THEN Lookup(table, key)
    ELSE IF key \in ObjectPrototypeKeys THEN InheritedMember
    ELSE <<>>

BlobScheme == <<"b", "l", "o", "b", ":">>

FbmMarker == <<".", "f", "b", "m", "/">>

\* The candidate keys of resolveBlobUrl, in insertion order.
ResolveCandidates(normalized) ==
    LET basename == LastSegment(normalized)
        fbxFolderIndex == LastIndexOf(normalized, FbmMarker)
        afterFbm == IF fbxFolderIndex >= 0 THEN Drop(normalized, fbxFolderIndex + 5) ELSE <<>>
    IN  (IF normalized # <<>> THEN <<normalized>> ELSE <<>>)
        \o (IF basename # <<>> THEN <<basename>> ELSE <<>>)
        \o (IF afterFbm # <<>> THEN <<afterFbm>> ELSE <<>>)
        \o (IF afterFbm # <<>> /\ LastSegment(afterFbm) # <<>>
            THEN <<LastSegment(afterFbm)>> ELSE <<>>)

resolveBlobUrl(requestedUrl, table) ==
    IF StartsWith(requestedUrl, BlobScheme) THEN requestedUrl
    ELSE
      LET decoded == BeforeFirst(BeforeFirst(safeDecode(requestedUrl), "?"), "#")
          normalized == normalizeAssetKey(decoded)
          candidates == ResolveCandidates(normalized)
          basename == LastSegment(normalized)
          found == {c \in 1..Len(candidates) : GetProperty(table, candidates[c]) # <<>>}
          tails == {k \in 1..Len(table) :
                       basename # <<>> /\ EndsWith(table[k][1], <<"/">> \o basename)}
      IN  IF found # {}
          THEN GetProperty(table, candidates[CHOOSE c \in found : \A d \in found : c <= d])
          ELSE IF tails # {}
          THEN table[CHOOSE k \in tails : \A j \in tails : k <= j][2]
          ELSE requestedUrl

\* getExtension(fileName)
getExtension(fileName) ==
    LET lower == ToLowerCase(fileName)
        dot == LastIndexOf(lower, <<".">>)
    IN  IF dot = -1 THEN <<>> ELSE Drop(lower, dot)

(***************************************************************************)
(* normalizeAssetKey applied to an input and to its own result             *)
(***************************************************************************)

MaxKeyLen == 3

NormAlphabet == {"/", "\\", ".", ":", " ", "a", "C"}

RECURSIVE StringsUpTo(_, _)
StringsUpTo(alphabet, n) ==
    IF n = 0 THEN {<<>>}
    ELSE LET shorter == StringsUpTo(alphabet, n - 1)
         IN  shorter \cup {Append(t, c) : t \in shorter, c \in alphabet}

\* Paths with a file: scheme, a repeated drive prefix and leading whitespace.
NormExtraInputs == {
    <<"f", "i", "l", "e", ":", "/", "/", "/", "C", ":", "/", "a">>,
    <<"F", "I", "L", "E", ":", "/", "a">>,
    <<"C", ":", "/", "a", ":", "/", "a">>,
    <<" ", "/", "a", ".", "p", "n", "g">>,
    <<".", "/", ".", "/", "a">> }

NormInputs == StringsUpTo(NormAlphabet, MaxKeyLen) \cup NormExtraInputs

NormIdle ==
    /\ normInput = <<>>
    /\ normOnce = <<>>
    /\ normTwice = <<>>
    /\ normPc = "idle"

NormInit ==
    /\ normInput \in NormInputs
    /\ normOnce = <<>>
    /\ normTwice = <<>>
    /\ normPc = "input"

NormalizeOnce ==
    /\ normPc = "input"
    /\ normOnce' = normalizeAssetKey(normInput)
    /\ normPc' = "once"
    /\ UNCHANGED <<normInput, normTwice>>
    /\ UNCHANGED notNorm

NormalizeTwice ==
    /\ normPc = "once"
    /\ normTwice' = normalizeAssetKey(normOnce)
    /\ normPc' = "twice"
    /\ UNCHANGED <<normInput, normOnce>>
    /\ UNCHANGED notNorm

NormNext == NormalizeOnce \/ NormalizeTwice

(***************************************************************************)
(* parseRuntimeZipAsset (the runtime ZIP loader)                           *)
(***************************************************************************)

MaxEntries == 3

MaxRevokeCalls == 2

File(name) == [name |-> name, dir |-> FALSE]

Folder(name) == [name |-> name, dir |-> TRUE]

\* The entries an uploaded archive may hold.
ZipEntries == {
    File(<<"m", ".", "f", "b", "x">>),
    File(<<"M", ".", "F", "B", "X">>),
    File(<<"a", ".", "p", "n", "g">>),
    File(<<"d", "/", "a", ".", "p", "n", "g">>),
    File(<<"A", ".", "p", "n", "g">>),
    File(<<"a", "?", ".", "p", "n", "g">>),
    File(<<"%", "4", "1", ".", "p", "n", "g">>),
    File(<<"b", "l", "o", "b", ":", "a">>),
    Folder(<<"d", "/">>) }

RECURSIVE ArchivesUpTo(_)
ArchivesUpTo(n) ==
    IF n = 0 THEN {<<>>}
    ELSE LET shorter == ArchivesUpTo(n - 1)
         IN  shorter \cup
             {Append(a, e) : a \in shorter,
                             e \in ZipEntries}

IsInjective(a) == \A j, k \in 1..Len(a) : a[j] = a[k] => j = k

\* zip.files is keyed by entry name: no name occurs twice.
Archives == {a \in ArchivesUpTo(MaxEntries) : IsInjective(a)}

\* Object.values(zip.files).filter((entry) => !entry.dir)
RECURSIVE allEntries(_)
allEntries(archive) ==
    IF archive = <<>> THEN <<>>
    ELSE IF Head(archive).dir THEN allEntries(Tail(archive))
    ELSE <<Head(archive)>> \o allEntries(Tail(archive))

FbxExtension == <<".", "f", "b", "x">>

\* allEntries.filter((entry) => getExtension(entry.name) === ".fbx")
RECURSIVE fbxEntries(_)
fbxEntries(entries) ==
    IF entries = <<>> THEN <<>>
    ELSE IF getExtension(Head(entries).name) = FbxExtension
    THEN <<Head(entries)>> \o fbxEntries(Tail(entries))
    ELSE fbxEntries(Tail(entries))

MsgMissingFbx == "ZIP is missing an .fbx file."
MsgExactlyOne == "ZIP must contain exactly one .fbx file for v1 runtime loading."
MsgNotInBlobMap == "FBX file is not available in ZIP blob map."
MsgCorruptZip == "JSZip.loadAsync rejected"
MsgExtractFailed == "entry.async rejected"
MsgFbxParseFailed == "FBXLoader.loadAsync rejected"

\* The validation of the number of .fbx entries: the error thrown, or NULL.
validateFbxCount_OnlyMissing(count) ==
    IF count = 0 THEN MsgMissingFbx ELSE NULL

validateFbxCount(count) ==
    IF count = 0 THEN MsgMissingFbx
    ELSE IF count > 1 THEN MsgExactlyOne
    ELSE NULL

\* URL.createObjectURL(blob): a URL never handed out before.
createObjectURL(n) == BlobScheme \o NumberToString(n)

\* URL.revokeObjectURL(url) for every url of urlsToRevoke
revokeAll(urls, revocations) ==
    [u \in DOMAIN revocations |-> IF u \in urls THEN revocations[u] + 1 ELSE revocations[u]]

\* The catch block of parseRuntimeZipAsset: revoke, then rethrow.
catchRevoke_Nothing(urls, revocations) == revocations

catchRevoke(urls, revocations) == revokeAll(urls, revocations)

catchRethrow(error) == error

\* One iteration of the extraction loop: the table after entry.name got url.
addEntryToBlobUrls(table, name, url) ==
    LET normalized == normalizeAssetKey(name)
        withFull == SetKey(table, normalized, url)
        basename == LastSegment(normalized)
    IN  IF basename # <<>> /\ ~HasKey(withFull, basename)
        THEN SetKey(withFull, basename, url)
        ELSE withFull

\* blobUrls[normalizedFbx] ?? blobUrls[normalizedFbx.split("/").pop() ?? ""],
\* <<>> when undefined
lookupFbxUrl(table, fbxFileName) ==
    LET normalizedFbx == normalizeAssetKey(fbxFileName)
    IN  IF HasKey(table, normalizedFbx) THEN Lookup(table, normalizedFbx)
        ELSE IF HasKey(table, LastSegment(normalizedFbx))
        THEN Lookup(table, LastSegment(normalizedFbx))
        ELSE <<>>

\* detectPackageKind(pack)
detectPackageKind(hasSkinnedMesh) ==
    IF hasSkinnedMesh THEN "model_with_clip" ELSE "clip_only"

NoResolve == [op |-> "none"]

ZipIdle ==
    /\ zipFileOk = TRUE
    /\ zipArchive = <<>>
    /\ zipPc = "idle"
    /\ zipIndex = 0
    /\ blobUrls = <<>>
    /\ entryUrls = <<>>
    /\ urlsToRevoke = {}
    /\ urlRevocations = EmptyMap
    /\ zipThrown = NULL
    /\ zipError = NULL
    /\ zipResult = NULL
    /\ zipRevokeCalls = 0
    /\ zipResolve = NoResolve

ZipInit ==
    /\ \/ zipFileOk = TRUE /\ zipArchive \in Archives
       \/ zipFileOk = FALSE /\ zipArchive = <<>>
    /\ zipPc = "loadAsync"
    /\ zipIndex = 0
    /\ blobUrls = <<>>
    /\ entryUrls = <<>>
    /\ urlsToRevoke = {}
    /\ urlRevocations = EmptyMap
    /\ zipThrown = NULL
    /\ zipError = NULL
    /\ zipResult = NULL
    /\ zipRevokeCalls = 0
    /\ zipResolve = NoResolve

\* An error thrown inside the try block: the catch block, then the caller.
ZipFail(error) ==
    /\ zipThrown' = error
    /\ urlRevocations' = catchRevoke(urlsToRevoke, urlRevocations)
    /\ zipError' = catchRethrow(error)
    /\ zipPc' = "failed"

\* await JSZip.loadAsync(file), the two filters and the validation
ZipLoadAsync ==
    /\ zipPc = "loadAsync"
    /\ LET error == IF ~zipFileOk THEN MsgCorruptZip
                    ELSE validateFbxCount(Len(fbxEntries(allEntries(zipArchive))))
       IN  IF error # NULL
           THEN /\ ZipFail(error)
                /\ UNCHANGED zipIndex
           ELSE /\ zipPc' = "entries"
                /\ zipIndex' = 1
                /\ UNCHANGED <<urlRevocations, zipThrown, zipError>>
    /\ UNCHANGED <<zipFileOk, zipArchive, blobUrls, entryUrls, urlsToRevoke,
                   zipResult, zipRevokeCalls, zipResolve>>
    /\ UNCHANGED notZip

\* One iteration of `for (const entry of allEntries)`: the entry's bytes,
\* its object URL and its keys in blobUrls.
ZipExtractEntry ==
    /\ zipPc = "entries"
    /\ zipIndex <= Len(allEntries(zipArchive))
    /\ LET entry == allEntries(zipArchive)[zipIndex]
           objectUrl == createObjectURL(Len(entryUrls) + 1)
       IN  /\ entryUrls' = Append(entryUrls, objectUrl)
           /\ urlsToRevoke' = urlsToRevoke \cup {objectUrl}
           /\ urlRevocations' = Put(urlRevocations, objectUrl, 0)
           /\ blobUrls' = addEntryToBlobUrls(blobUrls, entry.name, objectUrl)
           /\ zipIndex' = zipIndex + 1
    /\ UNCHANGED <<zipFileOk, zipArchive, zipPc, zipThrown, zipError, zipResult,
                   zipRevokeCalls, zipResolve>>
    /\ UNCHANGED notZip

\* await entry.async("arraybuffer") rejects
ZipExtractFails ==
    /\ zipPc = "entries"
    /\ zipIndex <= Len(allEntries(zipArchive))
    /\ ZipFail(MsgExtractFailed)
    /\ UNCHANGED <<zipFileOk, zipArchive, zipIndex, blobUrls, entryUrls, urlsToRevoke,
                   zipResult, zipRevokeCalls, zipResolve>>
    /\ UNCHANGED notZip

\* loadFbxPackFromBlobMap up to loader.loadAsync(fbxUrl)
ZipLoadFbx ==
    /\ zipPc = "entries"
    /\ zipIndex > Len(allEntries(zipArchive))
    /\ LET fbxEntry == fbxEntries(allEntries(zipArchive))[1]
       IN  IF lookupFbxUrl(blobUrls, fbxEntry.name) = <<>>
           THEN ZipFail(MsgNotInBlobMap)
           ELSE /\ zipPc' = "parsing"
                /\ UNCHANGED <<urlRevocations, zipThrown, zipError>>
    /\ UNCHANGED <<zipFileOk, zipArchive, zipIndex, blobUrls, entryUrls, urlsToRevoke,
                   zipResult, zipRevokeCalls, zipResolve>>
    /\ UNCHANGED notZip

\* What the FBX loader may ask the URL modifier for: the archive's member
\* names and a texture path as authored inside an .fbm folder.
ResolveRequests ==
    {zipArchive[k].name : k \in 1..Len(zipArchive)}
        \cup {<<"C", ":", "/", "m", ".", "f", "b", "m", "/", "a", ".", "p", "n", "g">>}

\* manager.setURLModifier((url) => resolveBlobUrl(url, blobUrls)) at work
ZipResolveUrl ==
    /\ zipPc = "parsing"
    /\ \E request \in ResolveRequests :
           zipResolve' = [op |-> "resolve", request |-> request,
                          result |-> resolveBlobUrl(request, blobUrls)]
    /\ UNCHANGED <<zipFileOk, zipArchive, zipPc, zipIndex, blobUrls, entryUrls,
                   urlsToRevoke, urlRevocations, zipThrown, zipError, zipResult,
                   zipRevokeCalls>>
    /\ UNCHANGED notZip

\* loader.loadAsync(fbxUrl) resolves: buildLoadedPack, detectPackageKind
\* and the returned result
ZipParsed ==
    /\ zipPc = "parsing"
    /\ \E hasSkinnedMesh \in BOOLEAN :
           zipResult' = [kind |-> detectPackageKind(hasSkinnedMesh),
                         hasSkinnedMesh |-> hasSkinnedMesh,
                         fbxFileName |-> fbxEntries(allEntries(zipArchive))[1].name]
    /\ zipPc' = "done"
    /\ UNCHANGED <<zipFileOk, zipArchive, zipIndex, blobUrls, entryUrls, urlsToRevoke,
                   urlRevocations, zipThrown, zipError, zipRevokeCalls, zipResolve>>
    /\ UNCHANGED notZip

\* loader.loadAsync(fbxUrl) rejects
ZipParseFails ==
    /\ zipPc = "parsing"
    /\ ZipFail(MsgFbxParseFailed)
    /\ UNCHANGED <<zipFileOk, zipArchive, zipIndex, blobUrls, entryUrls, urlsToRevoke,
                   zipResult, zipRevokeCalls, zipResolve>>
    /\ UNCHANGED notZip

\* The returned revoke() is called
ZipRevoke ==
    /\ zipPc = "done"
    /\ zipRevokeCalls < MaxRevokeCalls
    /\ zipRevokeCalls' = zipRevokeCalls + 1
    /\ urlRevocations' = revokeAll(urlsToRevoke, urlRevocations)
    /\ UNCHANGED <<zipFileOk, zipArchive, zipPc, zipIndex, blobUrls, entryUrls,
                   urlsToRevoke, zipThrown, zipError, zipResult, zipResolve>>
    /\ UNCHANGED notZip

ZipNext ==
    \/ ZipLoadAsync
    \/ ZipExtractEntry
    \/ ZipExtractFails
    \/ ZipLoadFbx
    \/ ZipResolveUrl
    \/ ZipParsed
    \/ ZipParseFails
    \/ ZipRevoke

(***************************************************************************)
(* CharacterLibrary (characters/library.ts)                                *)
(***************************************************************************)

MaxCalls == 3

\* entry.fileSizeBytes === undefined
UndefinedSize == 0

\* A content length reported for an FBX file.
SomeSize == 1

ManifestItem(id, label, kind, fbxUrl) ==
    [id |-> id, label |-> label, kind |-> kind, fbxUrl |-> fbxUrl]

IdDance == <<"d", "a", "n", "c", "e">>
IdRuntimeLike == <<"r", "u", "n", "t", "i", "m", "e", "-", "m", "o", "d", "e", "l", "-",
                   "p", "a", "c", "k", "-", "0">>
IdUnknown == <<"n", "o", "n", "e">>

\* The manifest the library is constructed from: a model pack whose id has
\* the shape of a runtime id and a clip pack whose FBX also carries a
\* skinned mesh.
Manifest ==
    [modelPacks |-> << ManifestItem(IdRuntimeLike, <<"R">>, "model_with_clip", "hero.fbx") >>,
     clipPacks  |-> << ManifestItem(IdDance, <<"D">>, "clip_only", "dance.fbx") >>]

\* Whether the FBX file at a URL holds a skinned mesh.
UrlHasSkinnedMesh(url) == url \in {"hero.fbx", "dance.fbx"}

\* The labels of uploaded packs.
RuntimeLabels == {<<"_">>, <<"A", " ", "1">>}

normalizeManifestItem(item) ==
    [id |-> item.id, label |-> item.label, kind |-> item.kind, source |-> "manifest",
     fbxUrl |-> item.fbxUrl, fileSizeBytes |-> UndefinedSize]

IsSlugChar(c) == c \in LowerCase \cup {"0", "1", "2", "3", "4", "5", "6", "7", "8", "9"}

\* .replace(/[^a-z0-9]+/g, "-")
RECURSIVE ReplaceNonSlugRuns(_)
ReplaceNonSlugRuns(s) ==
    IF s = <<>> THEN <<>>
    ELSE IF IsSlugChar(Head(s)) THEN <<Head(s)>> \o ReplaceNonSlugRuns(Tail(s))
    ELSE IF Len(s) > 1 /\ ~IsSlugChar(s[2]) THEN ReplaceNonSlugRuns(Tail(s))
    ELSE <<"-">> \o ReplaceNonSlugRuns(Tail(s))

RECURSIVE StripLeadingDashes(_)
StripLeadingDashes(s) ==
    IF s # <<>> /\ Head(s) = "-" THEN StripLeadingDashes(Tail(s)) ELSE s

RECURSIVE StripTrailingDashes(_)
StripTrailingDashes(s) ==
    IF s # <<>> /\ s[Len(s)] = "-"
    THEN StripTrailingDashes(SubSeq(s, 1, Len(s) - 1)) ELSE s

\* label.toLowerCase().replace(/[^a-z0-9]+/g, "-").replace(/^-+|-+$/g, "")
Slug(label) ==
    StripTrailingDashes(StripLeadingDashes(ReplaceNonSlugRuns(ToLowerCase(label))))

\* `runtime-${suffix}-${slug || "pack"}-${this.runtimeCounter++}`
RuntimeId(kind, label, counter) ==
    <<"r", "u", "n", "t", "i", "m", "e", "-">>
        \o (IF kind = "model_with_clip" THEN <<"m", "o", "d", "e", "l">>
            ELSE <<"c", "l", "i", "p">>)
        \o <<"-">>
        \o (IF Slug(label) # <<>> THEN Slug(label) ELSE <<"p", "a", "c", "k">>)
        \o <<"-">>
        \o NumberToString(counter)

\* entries.find((item) => item.id === id): its position, 0 when undefined
FindEntry_First(entries, id) == IF entries = <<>> THEN 0 ELSE 1

FindEntry(entries, id) ==
    LET hits == {k \in 1..Len(entries) : entries[k].id = id}
    IN  IF hits = {} THEN 0 ELSE CHOOSE k \in hits : \A j \in hits : k <= j

EntryIds(entries) == {entries[k].id : k \in 1..Len(entries)}

\* getLoadedClipPacks()
RECURSIVE LoadedPacks(_, _)
LoadedPacks(entries, cache) ==
    IF entries = <<>> THEN <<>>
    ELSE (IF Head(entries).id \in DOMAIN cache
          THEN << [entry |-> Head(entries), pack |-> cache[Head(entries).id]] >>
          ELSE <<>>)
         \o LoadedPacks(Tail(entries), cache)

getLoadedClipPacks == LoadedPacks(clipEntries, clipCache)

MsgNotRegistered == "Pack is not registered."
MsgMissingFbxUrl == "Pack is missing fbxUrl."
MsgFetchFailed == "loadFbxPackFromUrl rejected"

NoPack == [obj |-> 0, hasSkinnedMesh |-> FALSE]

\* The identity of the LoadedFbxPack that the k-th load call's
\* loadFbxPackFromUrl builds, and of the pack handed to the n-th
\* registerRuntimePack call: each is an object of its own.
LoadedObj(k) == k

RuntimeObj(n) == 0 - (n + 1)

LibInit ==
    /\ modelEntries = [k \in 1..Len(Manifest.modelPacks) |->
                           normalizeManifestItem(Manifest.modelPacks[k])]
    /\ clipEntries = [k \in 1..Len(Manifest.clipPacks) |->
                          normalizeManifestItem(Manifest.clipPacks[k])]
    /\ modelCache = EmptyMap
    /\ clipCache = EmptyMap
    /\ runtimeRevokers = <<>>
    /\ runtimeCounter = 0
    /\ callbacks = <<>>
    /\ loads = <<>>
    /\ disposeCalls = 0
    /\ libCall = NoCall

LibIdle ==
    /\ modelEntries = <<>>
    /\ clipEntries = <<>>
    /\ modelCache = EmptyMap
    /\ clipCache = EmptyMap
    /\ runtimeRevokers = <<>>
    /\ runtimeCounter = 0
    /\ callbacks = <<>>
    /\ loads = <<>>
    /\ disposeCalls = 0
    /\ libCall = NoCall

EntriesOf(method) == IF method = "loadModelPack" THEN modelEntries ELSE clipEntries

CacheOf(method) == IF method = "loadModelPack" THEN modelCache ELSE clipCache

\* The calls that had returned a pack or thrown when a new call starts.
ReturnedCalls == {k \in 1..Len(loads) : loads[k].pc \in {"done", "failed"}}

\* The calls made on the library so far: loadModelPack, loadClipPack,
\* registerRuntimePack and dispose.
Calls == Len(loads) + runtimeCounter + disposeCalls

\* loadModelPack(id) / loadClipPack(id) up to the first suspension of
\* loadEntry: the call's record
startLoad(method, id) ==
    LET entries == EntriesOf(method)
        cache == CacheOf(method)
        k == FindEntry(entries, id)
        call == [method |-> method, id |-> id, entry |-> k, pc |-> "", pack |-> NoPack,
                 error |-> NULL, fetched |-> FALSE, after |-> ReturnedCalls,
                 disposedAtStart |-> disposeCalls, disposedAtEnd |-> disposeCalls]
    IN  IF k = 0
        THEN [call EXCEPT !.pc = "failed", !.error = MsgNotRegistered]
        ELSE IF id \in DOMAIN cache
        THEN [call EXCEPT !.pc = "done", !.pack = cache[id]]
        ELSE IF entries[k].fbxUrl = ""
        THEN [call EXCEPT !.pc = "failed", !.error = MsgMissingFbxUrl]
        ELSE IF entries[k].fileSizeBytes = UndefinedSize
        THEN [call EXCEPT !.pc = "size"]
        ELSE [call EXCEPT !.pc = "fetch", !.fetched = TRUE]

\* A loadModelPack(id) or loadClipPack(id) call, up to its first suspension
LibStartLoad ==
    /\ Calls < MaxCalls
    /\ \E method \in {"loadModelPack", "loadClipPack"} :
         \E id \in EntryIds(EntriesOf(method)) \cup {IdUnknown} :
             loads' = Append(loads, startLoad(method, id))
    /\ UNCHANGED <<modelEntries, clipEntries, modelCache, clipCache, runtimeRevokers,
                   runtimeCounter, callbacks, disposeCalls, libCall>>
    /\ UNCHANGED notLib

\* resolveFileSizeBytesFromUrl resolves: entry.fileSizeBytes is set and
\* loadFbxPackFromUrl is called
LibSizeResolved ==
    /\ \E k \in 1..Len(loads), size \in {UndefinedSize, SomeSize} :
           /\ loads[k].pc = "size"
           /\ loads' = [loads EXCEPT ![k].pc = "fetch", ![k].fetched = TRUE]
           /\ IF loads[k].method = "loadModelPack"
              THEN /\ modelEntries' = [modelEntries EXCEPT
                                          ![loads[k].entry].fileSizeBytes = size]
                   /\ UNCHANGED clipEntries
              ELSE /\ clipEntries' = [clipEntries EXCEPT
                                         ![loads[k].entry].fileSizeBytes = size]
                   /\ UNCHANGED modelEntries
    /\ UNCHANGED <<modelCache, clipCache, runtimeRevokers, runtimeCounter, callbacks,
                   disposeCalls, libCall>>
    /\ UNCHANGED notLib

\* cache.set(entry.id, pack) of loadEntry
cacheSet_KeepFirst(cache, id, pack) ==
    IF id \in DOMAIN cache THEN cache ELSE Put(cache, id, pack)

cacheSet(cache, id, pack) == Put(cache, id, pack)

\* loadFbxPackFromUrl resolves with a new pack: it is cached and returned
LibFetchResolved ==
    /\ \E k \in 1..Len(loads) :
           LET call == loads[k]
               url == EntriesOf(call.method)[call.entry].fbxUrl
               pack == [obj |-> LoadedObj(k), hasSkinnedMesh |-> UrlHasSkinnedMesh(url)]
           IN  /\ call.pc = "fetch"
               /\ loads' = [loads EXCEPT ![k].pc = "done", ![k].pack = pack,
                                         ![k].disposedAtEnd = disposeCalls]
               /\ IF call.method = "loadModelPack"
                  THEN /\ modelCache' = cacheSet(modelCache, call.id, pack)
                       /\ UNCHANGED clipCache
                  ELSE /\ clipCache' = cacheSet(clipCache, call.id, pack)
                       /\ UNCHANGED modelCache
    /\ UNCHANGED <<modelEntries, clipEntries, runtimeRevokers, runtimeCounter, callbacks,
                   disposeCalls, libCall>>
    /\ UNCHANGED notLib

\* loadFbxPackFromUrl rejects: the error reaches the caller
LibFetchRejected ==
    /\ \E k \in 1..Len(loads) :
           /\ loads[k].pc = "fetch"
           /\ loads' = [loads EXCEPT ![k].pc = "failed", ![k].error = MsgFetchFailed,
                                     ![k].disposedAtEnd = disposeCalls]
    /\ UNCHANGED <<modelEntries, clipEntries, modelCache, clipCache, runtimeRevokers,
                   runtimeCounter, callbacks, disposeCalls, libCall>>
    /\ UNCHANGED notLib

\* registerRuntimePack(kind, label, pack, revoke, fileSizeBytes) as
\* onUploadZip calls it: the pack of a parsed ZIP under the kind
\* detectPackageKind gave it, with a release callback of its own
LibRegisterRuntimePack ==
    /\ Calls < MaxCalls
    /\ \E label \in RuntimeLabels, hasSkinnedMesh \in BOOLEAN, throws \in BOOLEAN :
           LET kind == detectPackageKind(hasSkinnedMesh)
               id == RuntimeId(kind, label, runtimeCounter)
               pack == [obj |-> RuntimeObj(runtimeCounter), hasSkinnedMesh |-> hasSkinnedMesh]
               entry == [id |-> id, label |-> label, kind |-> kind, source |-> "runtime",
                         fbxUrl |-> "", fileSizeBytes |-> SomeSize]
           IN  /\ runtimeCounter' = runtimeCounter + 1
               /\ IF kind = "model_with_clip"
                  THEN /\ modelEntries' = Append(modelEntries, entry)
                       /\ modelCache' = Put(modelCache, id, pack)
                       /\ UNCHANGED <<clipEntries, clipCache>>
                  ELSE /\ clipEntries' = Append(clipEntries, entry)
                       /\ clipCache' = Put(clipCache, id, pack)
                       /\ UNCHANGED <<modelEntries, modelCache>>
               /\ callbacks' = Append(callbacks, [calls |-> 0, throws |-> throws,
                                                  disposedBefore |-> disposeCalls])
               /\ runtimeRevokers' = SetKey(runtimeRevokers, id, Len(callbacks) + 1)
               /\ libCall' = [op |-> "registerRuntimePack", id |-> id,
                              idsBefore |-> EntryIds(modelEntries) \cup EntryIds(clipEntries),
                              cachedBefore |-> (DOMAIN modelCache) \cup (DOMAIN clipCache)]
    /\ UNCHANGED <<loads, disposeCalls>>
    /\ UNCHANGED notLib

\* The loop `for (const revoke of this.runtimeRevokers.values()) revoke()`
\* from position k on: the callbacks' records afterwards, and whether a
\* callback threw and ended the loop.
RECURSIVE revokeLoop(_, _, _)
revokeLoop(revokers, cbs, k) ==
    IF k > Len(revokers) THEN [callbacks |-> cbs, threw |-> FALSE]
    ELSE LET cb == revokers[k][2]
             called == [cbs EXCEPT ![cb].calls = @ + 1]
         IN  IF cbs[cb].throws THEN [callbacks |-> called, threw |-> TRUE]
             ELSE revokeLoop(revokers, called, k + 1)

\* dispose(): the callbacks, then the three clear() calls unless a
\* callback threw
LibDispose ==
    /\ Calls < MaxCalls
    /\ LET run == revokeLoop(runtimeRevokers, callbacks, 1)
       IN  /\ callbacks' = run.callbacks
           /\ libCall' = [op |-> "dispose", threw |-> run.threw]
           /\ IF run.threw
              THEN UNCHANGED <<runtimeRevokers, modelCache, clipCache>>
              ELSE /\ runtimeRevokers' = <<>>
                   /\ modelCache' = EmptyMap
                   /\ clipCache' = EmptyMap
    /\ disposeCalls' = disposeCalls + 1
    /\ UNCHANGED <<modelEntries, clipEntries, runtimeCounter, loads>>
    /\ UNCHANGED notLib

LibNext ==
    \/ LibStartLoad
    \/ LibSizeResolved
    \/ LibFetchResolved
    \/ LibFetchRejected
    \/ LibRegisterRuntimePack
    \/ LibDispose

(***************************************************************************)
(* Skeleton signature (computeSkeletonSignature, loaders/fbxPackLoader.ts) *)
(***************************************************************************)

\* The largest number of bones of a skeleton and of bone nodes of a graph.
MaxBones == 2

\* Bone names as an FBX file may carry them.
SigBoneNames == {<<"a">>, <<"A", " ">>, <<"b">>, <<"a", "|", "b">>, <<" ">>}

BoneListsUpTo(n) == UNION {[1..k -> SigBoneNames] : k \in 0..n}

Reverse(list) == [k \in 1..Len(list) |-> list[Len(list) + 1 - k]]

\* Scene graphs: skinnedMeshes holds skeleton.bones of each skinned mesh in
\* traversal order, boneNodes the names of the bone nodes in traversal
\* order.  A graph without skinned mesh; a graph with one skinned mesh
\* whose skeleton lists the bones in another order than the traversal
\* meets them; a graph with a second skinned mesh.
SceneGraphs ==
    {[skinnedMeshes |-> <<>>, boneNodes |-> list] : list \in BoneListsUpTo(MaxBones)}
        \cup {[skinnedMeshes |-> <<list>>, boneNodes |-> Reverse(list)] :
                 list \in BoneListsUpTo(MaxBones)}
        \cup {[skinnedMeshes |-> <<list, << <<"b">> >> >>, boneNodes |-> list] :
                 list \in BoneListsUpTo(MaxBones)}

\* The signature null, among signatures that are sequences of characters.
SigNull == <<"<null>">>

\* bone.name.trim().toLowerCase()
normalizeBoneName_NoLowerCase(name) == Trim(name)

normalizeBoneName(name) == ToLowerCase(Trim(name))

\* .map((bone) => bone.name.trim().toLowerCase()).filter(Boolean)
RECURSIVE boneNames(_)
boneNames(list) ==
    IF list = <<>> THEN <<>>
    ELSE (IF normalizeBoneName(Head(list)) # <<>>
          THEN <<normalizeBoneName(Head(list))>> ELSE <<>>)
         \o boneNames(Tail(list))

\* names.join("|")
RECURSIVE Join(_)
Join(names) ==
    IF names = <<>> THEN <<>>
    ELSE IF Len(names) = 1 THEN names[1]
    ELSE names[1] \o <<"|">> \o Join(Tail(names))

computeSkeletonSignature(graph) ==
    LET names == IF Len(graph.skinnedMeshes) > 0
                 THEN boneNames(graph.skinnedMeshes[1]) ELSE <<>>
        fallbackBoneNames == boneNames(graph.boneNodes)
    IN  IF Len(names) > 0 THEN Join(names)
        ELSE IF Len(fallbackBoneNames) = 0 THEN SigNull
        ELSE Join(fallbackBoneNames)

SigIdle ==
    /\ sigGraphs = <<>>
    /\ sigResults = <<>>
    /\ sigPc = "idle"

\* Two FBX graphs have been parsed; buildLoadedPack has yet to run on them.
SigInit ==
    /\ sigGraphs \in SceneGraphs \X SceneGraphs
    /\ sigResults = <<SigNull, SigNull>>
    /\ sigPc = "input"

\* buildLoadedPack on the first graph
SigComputeFirst ==
    /\ sigPc = "input"
    /\ sigResults' = [sigResults EXCEPT ![1] = computeSkeletonSignature(sigGraphs[1])]
    /\ sigPc' = "first"
    /\ UNCHANGED sigGraphs
    /\ UNCHANGED notSig

\* buildLoadedPack on the second graph
SigComputeSecond ==
    /\ sigPc = "first"
    /\ sigResults' = [sigResults EXCEPT ![2] = computeSkeletonSignature(sigGraphs[2])]
    /\ sigPc' = "second"
    /\ UNCHANGED sigGraphs
    /\ UNCHANGED notSig

SigNext ==
    \/ SigComputeFirst
    \/ SigComputeSecond

(***************************************************************************)
(* Archive sniffer (blobHasZipSignature)                                   *)
(***************************************************************************)

\* The largest number of bytes of a blob.
MaxBlobBytes == 5

\* The values a byte at a position takes: the bytes of 'PK' (0x50, 0x4B)
\* and another one in the first two places, the small values of the
\* record signatures in the next two, anything after them.
ByteAt(position) ==
    IF position <= 2 THEN {80, 75, 0}
    ELSE IF position <= 4 THEN 0..8
    ELSE {0}

RECURSIVE BlobsOfLength(_)
BlobsOfLength(n) ==
    IF n = 0 THEN {<<>>}
    ELSE {Append(blob, byte) : blob \in BlobsOfLength(n - 1), byte \in ByteAt(n)}

SniffBlobs == UNION {BlobsOfLength(n) : n \in 0..MaxBlobBytes}

\* The pairs (sig2, sig3) the function accepts after 'PK'.
zipSignaturePairs_NoSpanned == {<<3, 4>>, <<5, 6>>}

zipSignaturePairs == {<<3, 4>>, <<5, 6>>, <<7, 8>>}

\* blob.slice(0, 4)
BlobSlice4(blob) == SubSeq(blob, 1, IF Len(blob) < 4 THEN Len(blob) ELSE 4)

blobHasZipSignature(blob) ==
    LET header == BlobSlice4(blob)
    IN  IF Len(header) < 4 THEN FALSE
        ELSE IF ~(header[1] = 80 /\ header[2] = 75) THEN FALSE
        ELSE <<header[3], header[4]>> \in zipSignaturePairs

SniffIdle ==
    /\ sniffBlob = <<>>
    /\ sniffResult = FALSE
    /\ sniffPc = "idle"

\* A response body has been read as a blob.
SniffInit ==
    /\ sniffBlob \in SniffBlobs
    /\ sniffResult = FALSE
    /\ sniffPc = "input"

\* await blobHasZipSignature(blob)
SniffRead ==
    /\ sniffPc = "input"
    /\ sniffResult' = blobHasZipSignature(sniffBlob)
    /\ sniffPc' = "done"
    /\ UNCHANGED sniffBlob
    /\ UNCHANGED notSniff

SniffNext == SniffRead

(***************************************************************************)
(* Remote archive download (responseToZipFile)                             *)
(***************************************************************************)

\* A header value or blob type, lower-cased, as the sequence of its parts
\* (media type, parameters); "" is the value used when the header is absent.
MimeValues ==
    {<<>>,
     <<"text/html", "charset=utf-8">>,
     <<"application/zip">>,
     <<"application/x-zip-compressed">>,
     <<"application/octet-stream">>,
     <<"image/png">>}

\* value.includes(needle), for a needle that is one media type
Includes(value, needle) == \E k \in 1..Len(value) : value[k] = needle

MsgHtmlPage == "Remote URL returned an HTML page, not a ZIP file."
MsgNotValidZip == "Downloaded file is not a valid ZIP."

isHtml(contentType, blobType) ==
    Includes(contentType, "text/html") \/ Includes(blobType, "text/html")

\* The media types that name an archive format.
ArchiveMimeTypes == {"application/zip", "application/x-zip-compressed"}

zipMimeTypes ==
    {"application/zip", "application/x-zip-compressed", "application/octet-stream"}

zipMime(contentType, blobType) ==
    \E type \in zipMimeTypes : Includes(contentType, type) \/ Includes(blobType, type)

NoFile == [type |-> NULL, blob |-> <<>>]

ResponseIdle == response = [pc |-> "idle"]

\* fetch resolved with some response
ResponseInit ==
    response \in [pc : {"input"}, contentType : MimeValues, blobType : MimeValues,
                  body : SniffBlobs, error : {NULL}, file : {NoFile}]

\* responseToZipFile up to its second await: the body is read, an HTML page
\* is refused, a response with an archive MIME type becomes a File at once.
ResponseBlobRead ==
    /\ response.pc = "input"
    /\ response' =
          IF isHtml(response.contentType, response.blobType)
          THEN [response EXCEPT !.pc = "failed", !.error = MsgHtmlPage]
          ELSE IF zipMime(response.contentType, response.blobType)
          THEN [response EXCEPT !.pc = "done",
                                !.file = [type |-> "application/zip", blob |-> response.body]]
          ELSE [response EXCEPT !.pc = "sniff"]
    /\ UNCHANGED notResponse

\* await blobHasZipSignature(blob) resolved
ResponseSniffed ==
    /\ response.pc = "sniff"
    /\ response' =
          IF blobHasZipSignature(response.body)
          THEN [response EXCEPT !.pc = "done",
                                !.file = [type |-> "application/zip", blob |-> response.body]]
          ELSE [response EXCEPT !.pc = "failed", !.error = MsgNotValidZip]
    /\ UNCHANGED notResponse

ResponseNext ==
    \/ ResponseBlobRead
    \/ ResponseSniffed

(***************************************************************************)
(* Archive resolver applied to a table and a request (resolveBlobUrl)      *)
(***************************************************************************)

\* The most keys of a table.
MaxTableKeys == 2

ResolveTableKeys ==
    {<<"a">>,
     <<"d", "/", "a">>,
     <<"t", "/", "a">>,
     <<"x", "/", "d", "/", "a">>,
     <<"b", "l", "o", "b", ":", "a">>,
     <<>>}

\* The tables of n distinct keys; the k-th key holds the k-th object URL.
RECURSIVE TablesOfSize(_)
TablesOfSize(n) ==
    IF n = 0 THEN {<<>>}
    ELSE {Append(table, <<key, createObjectURL(n)>>) :
              table \in TablesOfSize(n - 1),
              key \in ResolveTableKeys}

ResolveTables ==
    {table \in UNION {TablesOfSize(n) : n \in 0..MaxTableKeys} :
        \A i, j \in 1..Len(table) : table[i][1] = table[j][1] => i = j}

ResolveInputs ==
    {<<"a">>,
     <<"D", "/", "A", "?", "v">>,
     <<"d", "/", "a">>,
     <<"b">>,
     <<"/">>,
     <<"C", ":", "/", "m", ".", "f", "b", "m", "/", "a">>,
     <<"C", ":", "/", "m", ".", "f", "b", "m", "/", "t", "/", "a">>,
     <<"b", "l", "o", "b", ":", "a">>,
     <<"c", "o", "n", "s", "t", "r", "u", "c", "t", "o", "r">>}

ResolveIdle == resolve = [pc |-> "idle"]

ResolveInit ==
    resolve \in [pc : {"input"}, table : ResolveTables, request : ResolveInputs,
                 result : {<<>>}]

\* resolveBlobUrl(requestedUrl, blobUrls) returns
ResolveCall ==
    /\ resolve.pc = "input"
    /\ resolve' = [resolve EXCEPT !.pc = "done",
                                  !.result = resolveBlobUrl(resolve.request, resolve.table)]
    /\ UNCHANGED notResolve

ResolveNext == ResolveCall

(***************************************************************************)
(* The mounted app                                                         *)
(***************************************************************************)

\* SLOT_CAPACITY
SlotCapacity == 5

\* VisibleCount = 3 | 4 | 5
VisibleCounts == {3, 4, 5}

\* The most user events (clicks, count changes, model changes, uploads).
MaxEvents == 2

SlotIndices == 0..(SlotCapacity - 1)

\* selectedSlotIndex === null
NoSlot == 0 - 1

\* The ids of the manifest's model packs, and of an uploaded model pack.
AppManifests == {<<>>, <<"m1", "m2", "m3">>}
UploadedModelId == "runtime-model"

\* slot.getModelPackId() of a slot without a model
NoModelId == ""

AppIdle == app = [pc |-> "idle"]

\* mountApp up to the call of initializeScene: five empty slots, nothing
\* selected, the listeners registered.
AppInit ==
    app \in [pc : {"mounted"},
             manifest : AppManifests,
             visibleCount : VisibleCounts,
             selectedSlotIndex : {NoSlot},
             selected : {[i \in SlotIndices |-> FALSE]},
             model : {[i \in SlotIndices |-> NoModelId]},
             calls : {<<>>},
             cached : {{}},
             events : {0}]

findFirstVisibleModelSlot(model, visibleCount) ==
    LET withModel == {i \in SlotIndices : i < visibleCount /\ model[i] # NoModelId}
    IN  IF withModel = {} THEN NoSlot
        ELSE CHOOSE i \in withModel : \A j \in withModel : i <= j

\* a ?? toSlotIndex(0)
OrSlotZero(index) == IF index = NoSlot THEN 0 ELSE index

\* slots[index].setSelected(value), on the record of the selected flags
setSelected(selected, index, value) == [selected EXCEPT ![index] = value]

applyVisibleCount(a, nextCount) ==
    LET counted == [a EXCEPT !.visibleCount = nextCount]
    IN  IF a.selectedSlotIndex = NoSlot \/ a.selectedSlotIndex >= nextCount
        THEN LET cleared == IF a.selectedSlotIndex # NoSlot
                            THEN setSelected(a.selected, a.selectedSlotIndex, FALSE)
                            ELSE a.selected
                 next == OrSlotZero(findFirstVisibleModelSlot(a.model, nextCount))
             IN  [counted EXCEPT !.selectedSlotIndex = next,
                                 !.selected = setSelected(cleared, next, TRUE)]
        ELSE counted

selectSlot(a, slotIndex) ==
    IF slotIndex >= a.visibleCount THEN a
    ELSE LET cleared == IF a.selectedSlotIndex # NoSlot /\ a.selectedSlotIndex # slotIndex
                        THEN setSelected(a.selected, a.selectedSlotIndex, FALSE)
                        ELSE a.selected
         IN  [a EXCEPT !.selectedSlotIndex = slotIndex,
                       !.selected = setSelected(cleared, slotIndex, TRUE)]

\* The applyModelToSlot calls whose library.loadModelPack is still awaited.
PendingCalls(a) == {k \in 1..Len(a.calls) : a.calls[k].pc = "pending"}

\* applyModelToSlot after library.loadModelPack resolved: the slot loads
\* the pack and, when it is the selected one, is highlighted again.
finishApply(a, k) ==
    LET slotIndex == a.calls[k].slot
    IN  [a EXCEPT !.calls[k].pc = "applied",
                  !.cached = @ \cup {a.calls[k].model},
                  !.model[slotIndex] = a.calls[k].model,
                  !.selected = IF a.selectedSlotIndex = slotIndex
                               THEN setSelected(a.selected, slotIndex, TRUE)
                               ELSE a.selected]

\* applyModelToSlot after library.loadModelPack rejected: notify, return false
failApply(a, k) == [a EXCEPT !.calls[k].pc = "failed"]

\* applyModelToSlot up to the first point where another event can be
\* delivered: a pack the library has cached is applied at once, any other
\* is awaited.
startApply(a, slotIndex, packId, origin) ==
    LET called == [a EXCEPT !.calls = Append(@, [slot |-> slotIndex, model |-> packId,
                                                 origin |-> origin, pc |-> "pending",
                                                 pendingAtStart |-> PendingCalls(a)])]
    IN  IF packId \in a.cached THEN finishApply(called, Len(called.calls)) ELSE called

\* The model entry initializeScene gives to slot i.
InitEntry(a, i) == a.manifest[(i % Len(a.manifest)) + 1]

\* initializeScene after its loop: the first visible slot with a model, or
\* slot 0, becomes the selected one.
selectAfterLoop(a) ==
    LET next == OrSlotZero(findFirstVisibleModelSlot(a.model, a.visibleCount))
    IN  [a EXCEPT !.selectedSlotIndex = next,
                  !.selected = setSelected(a.selected, next, TRUE),
                  !.pc = "preload"]

\* The loop of initializeScene from slot i up to the next load that is
\* awaited, or the code after the loop up to its await.
RECURSIVE initLoop(_, _)
initLoop(a, i) ==
    IF i >= SlotCapacity THEN selectAfterLoop(a)
    ELSE LET started == startApply(a, i, InitEntry(a, i), "init")
         IN  IF started.calls[Len(started.calls)].pc = "pending" THEN started
             ELSE initLoop(started, i + 1)

\* initializeScene up to its first await
AppInitializeScene ==
    /\ app.pc = "mounted"
    /\ LET counted == applyVisibleCount(app, app.visibleCount)
       IN  app' = IF Len(app.manifest) = 0
                  THEN [counted EXCEPT !.selectedSlotIndex = 0,
                                       !.selected = setSelected(counted.selected, 0, TRUE),
                                       !.pc = "ready"]
                  ELSE initLoop([counted EXCEPT !.pc = "loading"], 0)
    /\ UNCHANGED notApp

\* library.loadModelPack resolved for a pending applyModelToSlot call
AppLoadResolved ==
    /\ \E k \in PendingCalls(app) :
          LET applied == finishApply(app, k)
          IN  app' = IF app.calls[k].origin = "init"
                     THEN initLoop(applied, app.calls[k].slot + 1)
                     ELSE applied
    /\ UNCHANGED notApp

\* library.loadModelPack rejected for a pending applyModelToSlot call
AppLoadRejected ==
    /\ \E k \in PendingCalls(app) :
          LET failed == failApply(app, k)
          IN  app' = IF app.calls[k].origin = "init"
                     THEN initLoop(failed, app.calls[k].slot + 1)
                     ELSE failed
    /\ UNCHANGED notApp

\* await library.preloadClipPacks(...) resolved; the clip packs are attached
AppPreloaded ==
    /\ app.pc = "preload"
    /\ app' = [app EXCEPT !.pc = "ready"]
    /\ UNCHANGED notApp

\* A user event can be delivered: the listeners are registered and no
\* handler is running.
AcceptsEvents == app.pc \in {"loading", "preload", "ready"} /\ app.events < MaxEvents

Counted(a) == [a EXCEPT !.events = @ + 1]

\* onSelectSlot / a click on a slot
AppSelectSlot ==
    /\ AcceptsEvents
    /\ \E slotIndex \in SlotIndices : app' = Counted(selectSlot(app, slotIndex))
    /\ UNCHANGED notApp

\* onVisibleCountChange
AppVisibleCountChange ==
    /\ AcceptsEvents
    /\ \E nextCount \in VisibleCounts : app' = Counted(applyVisibleCount(app, nextCount))
    /\ UNCHANGED notApp

\* onModelChange up to its await
AppModelChange ==
    /\ AcceptsEvents
    /\ Len(app.manifest) > 0
    /\ \E k \in 1..Len(app.manifest) :
          app' = Counted(IF app.selectedSlotIndex = NoSlot THEN app
                         ELSE startApply(app, app.selectedSlotIndex, app.manifest[k], "change"))
    /\ UNCHANGED notApp

\* onUploadZip after parseRuntimeZipAsset resolved with a model pack: the
\* pack is registered and cached, so applyModelToSlot applies it to the
\* selected slot before any other event is delivered.
AppUploadModelZip ==
    /\ AcceptsEvents
    /\ LET chosen == IF app.selectedSlotIndex = NoSlot
                     THEN LET next == OrSlotZero(findFirstVisibleModelSlot(app.model,
                                                                            app.visibleCount))
                          IN  [app EXCEPT !.selectedSlotIndex = next,
                                          !.selected = setSelected(app.selected, next, TRUE)]
                     ELSE app
           registered == [chosen EXCEPT !.cached = @ \cup {UploadedModelId}]
       IN  app' = Counted(startApply(registered, registered.selectedSlotIndex,
                                     UploadedModelId, "upload"))
    /\ UNCHANGED notApp

AppNext ==
    \/ AppInitializeScene
    \/ AppLoadResolved
    \/ AppLoadRejected
    \/ AppPreloaded
    \/ AppSelectSlot
    \/ AppVisibleCountChange
    \/ AppModelChange
    \/ AppUploadModelZip

(***************************************************************************)
(* The stage's environment map loader (loadHdri)                           *)
(***************************************************************************)

HdriIdle == hdri = [pc |-> "idle"]

\* The number of loadHdri calls of one run.
MaxHdriLoads == 3

NoUrl == 0

NoTexture == <<>>

\* The names of the files handed to loadHdri.
HdriFiles ==
    {<<"a", ".", "h", "d", "r">>,
     <<"b", ".", "E", "X", "R", " ">>,
     <<"e", "x", "r">>}

\* fileName.trim().toLowerCase().endsWith(".exr")
isExrFile(fileName) == EndsWith(ToLowerCase(Trim(fileName)), <<".", "e", "x", "r">>)

DEFAULT_HDRI_SETTINGS == [loaded |-> FALSE, name |-> <<>>, enabled |-> FALSE]

\* createStage: no HDRI loaded, no object URL created or revoked yet.
HdriInit ==
    hdri = [pc |-> "ready",
            created |-> 0,
            calls |-> <<>>,
            revoked |-> [u \in 1..MaxHdriLoads |-> 0],
            hdriObjectUrl |-> NoUrl,
            hdriBackgroundTexture |-> NoTexture,
            hdriEnvironmentTexture |-> NoTexture,
            hdriSettings |-> DEFAULT_HDRI_SETTINGS,
            disposedTextures |-> {},
            last |-> [op |-> "none"]]

\* URL.revokeObjectURL(url)
revokeObjectURL(h, url) == [h EXCEPT !.revoked[url] = @ + 1]

\* texture.dispose() for each texture that is not null
disposeTextures(h, textures) ==
    [h EXCEPT !.disposedTextures = @ \cup (textures \ {NoTexture})]

\* The outer catch of loadHdri: the textures of this call are disposed and
\* the call's URL is revoked unless nextObjectUrl holds it; the error is
\* thrown again.
hdriCatch(h, k, nextBackgroundTexture, nextEnvironmentTexture, nextObjectUrl) ==
    LET objectUrl == h.calls[k].objectUrl
        disposed == disposeTextures(h, {nextBackgroundTexture, nextEnvironmentTexture})
        released == IF nextObjectUrl # objectUrl
                    THEN revokeObjectURL(disposed, objectUrl)
                    ELSE disposed
    IN  [released EXCEPT !.calls[k].pc = "threw"]

\* loadHdri once a decoder has produced the background texture: the
\* environment map is generated and the new textures, URL and settings
\* replace the previous ones, which are then disposed and revoked; when
\* pmremGenerator.fromEquirectangular throws, the outer catch runs.
hdriFinish(h, k, nextBackgroundTexture, nextObjectUrl, pmremThrows) ==
    IF pmremThrows
    THEN hdriCatch(h, k, nextBackgroundTexture, NoTexture, nextObjectUrl)
    ELSE LET nextEnvironmentTexture == <<"environment", k>>
             previousObjectUrl == h.hdriObjectUrl
             swapped == [h EXCEPT !.hdriBackgroundTexture = nextBackgroundTexture,
                                  !.hdriEnvironmentTexture = nextEnvironmentTexture,
                                  !.hdriObjectUrl = nextObjectUrl,
                                  !.hdriSettings = [@ EXCEPT !.loaded = TRUE,
                                                             !.name = h.calls[k].file,
                                                             !.enabled = TRUE]]
             disposed == disposeTextures(swapped, {h.hdriBackgroundTexture,
                                                   h.hdriEnvironmentTexture})
             released == IF previousObjectUrl # NoUrl
                         THEN revokeObjectURL(disposed, previousObjectUrl)
                         ELSE disposed
         IN  [released EXCEPT !.calls[k].pc = "returned"]

\* What a step of call k leaves in `last`: the step, and the HDRI state
\* the step started from.
HdriStep(h, op, k) ==
    [h EXCEPT !.last = [op |-> op, call |-> k,
                        hdriObjectUrl |-> hdri.hdriObjectUrl,
                        hdriBackgroundTexture |-> hdri.hdriBackgroundTexture,
                        hdriEnvironmentTexture |-> hdri.hdriEnvironmentTexture,
                        hdriSettings |-> hdri.hdriSettings,
                        revoked |-> hdri.revoked,
                        disposedTextures |-> hdri.disposedTextures]]

\* loadHdri(file) up to its first await: URL.createObjectURL(file) and
\* loader.loadAsync(objectUrl) started.
HdriLoadStart ==
    /\ hdri.pc = "ready"
    /\ hdri.created < MaxHdriLoads
    /\ \E file \in HdriFiles :
           LET objectUrl == hdri.created + 1
               k == Len(hdri.calls) + 1
           IN  hdri' = HdriStep([hdri EXCEPT
                                    !.created = objectUrl,
                                    !.calls = Append(@, [file |-> file,
                                                         objectUrl |-> objectUrl,
                                                         pc |-> "primary"])],
                                "loadHdri", k)
    /\ UNCHANGED notHdri

\* loader.loadAsync(objectUrl) resolves: nextObjectUrl = objectUrl, and the
\* rest of loadHdri runs to its end.
HdriPrimaryResolved ==
    /\ hdri.pc \in {"ready", "disposed"}
    /\ \E k \in 1..Len(hdri.calls), pmremThrows \in BOOLEAN :
           /\ hdri.calls[k].pc = "primary"
           /\ LET done == hdriFinish(hdri, k, <<"background", k>>,
                                     hdri.calls[k].objectUrl, pmremThrows)
              IN  hdri' = HdriStep(done, done.calls[k].pc, k)
    /\ UNCHANGED notHdri

\* loader.loadAsync(objectUrl) rejects: thrown on to the outer catch unless
\* the file is an EXR, whose bytes are then read for the fallback decoder.
HdriPrimaryRejected ==
    /\ hdri.pc \in {"ready", "disposed"}
    /\ \E k \in 1..Len(hdri.calls) :
           /\ hdri.calls[k].pc = "primary"
           /\ IF ~isExrFile(hdri.calls[k].file)
              THEN hdri' = HdriStep(hdriCatch(hdri, k, NoTexture, NoTexture, NoUrl),
                                    "threw", k)
              ELSE hdri' = HdriStep([hdri EXCEPT !.calls[k].pc = "fallback"],
                                    "fallback", k)
    /\ UNCHANGED notHdri

\* The fallback: file.arrayBuffer() and buildExrFallbackTextureFromHdrify.
\* When both succeed the URL is revoked and loadHdri runs to its end with
\* nextObjectUrl null; when either fails the outer catch runs.
HdriFallbackSettled ==
    /\ hdri.pc \in {"ready", "disposed"}
    /\ \E k \in 1..Len(hdri.calls), decoded \in BOOLEAN, pmremThrows \in BOOLEAN :
           /\ hdri.calls[k].pc = "fallback"
           /\ LET done ==
                      IF decoded
                      THEN hdriFinish(revokeObjectURL(hdri, hdri.calls[k].objectUrl),
                                      k, <<"background", k>>, NoUrl, pmremThrows)
                      ELSE hdriCatch(hdri, k, NoTexture, NoTexture, NoUrl)
              IN  hdri' = HdriStep(done, done.calls[k].pc, k)
    /\ UNCHANGED notHdri

\* StageHandle.dispose(): the HDRI textures are disposed and the retained
\* URL is revoked.
HdriDispose ==
    /\ hdri.pc = "ready"
    /\ LET disposed == disposeTextures(hdri, {hdri.hdriBackgroundTexture,
                                              hdri.hdriEnvironmentTexture})
           released == IF hdri.hdriObjectUrl # NoUrl
                       THEN revokeObjectURL(disposed, hdri.hdriObjectUrl)
                       ELSE disposed
       IN  hdri' = HdriStep([released EXCEPT !.pc = "disposed"], "dispose", 0)
    /\ UNCHANGED notHdri

HdriNext ==
    \/ HdriLoadStart
    \/ HdriPrimaryResolved
    \/ HdriPrimaryRejected
    \/ HdriFallbackSettled
    \/ HdriDispose

(***************************************************************************)
(* Specifications                                                          *)
(***************************************************************************)

InitSlot ==
    /\ SlotInit /\ NormIdle /\ ZipIdle /\ LibIdle /\ SigIdle /\ SniffIdle
    /\ ResponseIdle /\ ResolveIdle /\ AppIdle /\ HdriIdle

SpecSlot == InitSlot /\ [][SlotNext]_vars

InitNorm ==
    /\ NormInit /\ SlotInit /\ ZipIdle /\ LibIdle /\ SigIdle /\ SniffIdle
    /\ ResponseIdle /\ ResolveIdle /\ AppIdle /\ HdriIdle

SpecNorm == InitNorm /\ [][NormNext]_vars

InitZip ==
    /\ ZipInit /\ SlotInit /\ NormIdle /\ LibIdle /\ SigIdle /\ SniffIdle
    /\ ResponseIdle /\ ResolveIdle /\ AppIdle /\ HdriIdle

SpecZip == InitZip /\ [][ZipNext]_vars

InitSig ==
    /\ SigInit /\ SlotInit /\ NormIdle /\ ZipIdle /\ LibIdle /\ SniffIdle
    /\ ResponseIdle /\ ResolveIdle /\ AppIdle /\ HdriIdle

SpecSig == InitSig /\ [][SigNext]_vars

InitSniff ==
    /\ SniffInit /\ SlotInit /\ NormIdle /\ ZipIdle /\ LibIdle /\ SigIdle
    /\ ResponseIdle /\ ResolveIdle /\ AppIdle /\ HdriIdle

SpecSniff == InitSniff /\ [][SniffNext]_vars

InitLib ==
    /\ LibInit /\ SlotInit /\ NormIdle /\ ZipIdle /\ SigIdle /\ SniffIdle
    /\ ResponseIdle /\ ResolveIdle /\ AppIdle /\ HdriIdle

SpecLib == InitLib /\ [][LibNext]_vars

InitResponse ==
    /\ ResponseInit
    /\ SlotInit /\ NormIdle /\ ZipIdle /\ LibIdle /\ SigIdle /\ SniffIdle
    /\ ResolveIdle /\ AppIdle /\ HdriIdle

SpecResponse == InitResponse /\ [][ResponseNext]_vars

InitApp ==
    /\ AppInit
    /\ SlotInit /\ NormIdle /\ ZipIdle /\ LibIdle /\ SigIdle /\ SniffIdle
    /\ ResponseIdle /\ ResolveIdle /\ HdriIdle

SpecApp == InitApp /\ [][AppNext]_vars

InitResolve ==
    /\ ResolveInit
    /\ SlotInit /\ NormIdle /\ ZipIdle /\ LibIdle /\ SigIdle /\ SniffIdle
    /\ ResponseIdle /\ AppIdle /\ HdriIdle

SpecResolve == InitResolve /\ [][ResolveNext]_vars

InitHdri ==
    /\ HdriInit
    /\ SlotInit /\ NormIdle /\ ZipIdle /\ LibIdle /\ SigIdle /\ SniffIdle
    /\ ResponseIdle /\ ResolveIdle /\ AppIdle

SpecHdri == InitHdri /\ [][HdriNext]_vars

(***************************************************************************)
(* Claims about CharacterSlot, checked under SpecSlot                      *)
(***************************************************************************)

AttachIncompatible(call) ==
    \/ call.slotSignature = NULL
    \/ call.packSignature = NULL
    \/ call.slotSignature # call.packSignature

\* C1 (as stated): attachClipPack returns [] when the slot's signature is
\* null, the pack's signature is null or the two differ, and a non-empty
\* list of clip ids whenever the two signatures are exactly equal.
C1_AttachGateAsStated ==
    slotCall.op = "attachClipPack" =>
        /\ AttachIncompatible(slotCall) => slotCall.ret = <<>>
        /\ ~AttachIncompatible(slotCall) => slotCall.ret # <<>>

\* C1 (amended): attachClipPack returns [] when the slot's signature is
\* null, the pack's signature is null or the two differ; with two equal
\* non-null signatures it returns a non-empty list exactly when the pack id
\* is not yet attached to the slot and the pack holds at least one clip,
\* and then one id per clip of the pack.
C1_AttachGate ==
    slotCall.op = "attachClipPack" =>
        /\ AttachIncompatible(slotCall) => slotCall.ret = <<>>
        /\ ~AttachIncompatible(slotCall) =>
              IF ~slotCall.wasAttached /\ PackObjs[slotCall.pack].clips # <<>>
              THEN Len(slotCall.ret) = Len(PackObjs[slotCall.pack].clips)
              ELSE slotCall.ret = <<>>

\* A compatible pack has just been attached and its clip ids returned.
C1_Witness ==
    /\ slotCall.op = "attachClipPack"
    /\ slotCall.slotSignature = SigHead
    /\ slotCall.packSignature = SigHead
    /\ slotCall.ret # <<>>

\* C2: every option of source 'clip_pack' registered on the slot comes from
\* a clip pack whose skeleton signature is non-null and equal to the
\* signature of the model currently loaded in the slot.
C2_ClipOptionsMatchModel ==
    \A k \in 1..Len(animationOptions) :
        animationOptions[k].source = "clip_pack" =>
            /\ modelRoot # NoModel
            /\ PackObjs[animationOptions[k].clip[1]].skeletonSignature # NULL
            /\ PackObjs[animationOptions[k].clip[1]].skeletonSignature
                   = PackObjs[modelRoot].skeletonSignature
            /\ PackObjs[animationOptions[k].clip[1]].skeletonSignature = skeletonSignature

\* A model was loaded into the slot after another one, and a clip pack is
\* attached to it.
C2_Witness ==
    /\ modelPackId = "m2"
    /\ \E k \in 1..Len(animationOptions) : animationOptions[k].source = "clip_pack"
    /\ slotCall.op = "playClip"

(***************************************************************************)
(* Claims about the key normalizer, checked under SpecNorm                 *)
(***************************************************************************)

\* C6: normalizeAssetKey is idempotent: for every input string s,
\* normalizeAssetKey(normalizeAssetKey(s)) equals normalizeAssetKey(s).
C6_NormalizeIdempotent ==
    normPc = "twice" => normTwice = normOnce

(***************************************************************************)
(* Claims about parseRuntimeZipAsset, checked under SpecZip                *)
(***************************************************************************)

AllRevoked(times) ==
    \A k \in 1..Len(entryUrls) : urlRevocations[entryUrls[k]] = times

\* C5: when parseRuntimeZipAsset fails after creating object URLs, every
\* object URL it created has been revoked when the error reaches the
\* caller, and that error is the one that was thrown; while the call runs
\* and after it succeeded, no URL is revoked until the returned revoke()
\* is called.
C5_FailureRevokesAll ==
    /\ zipPc = "failed" =>
          /\ AllRevoked(1)
          /\ zipError # NULL
          /\ zipError = zipThrown
    /\ zipPc \in {"loadAsync", "entries", "parsing"} => AllRevoked(0)
    /\ (zipPc = "done" /\ zipRevokeCalls = 0) => AllRevoked(0)

\* The FBX parse failed after the URLs of two entries had been created.
C5_Witness ==
    /\ zipPc = "failed"
    /\ zipThrown = MsgFbxParseFailed
    /\ Len(entryUrls) >= 2

\* C7: for the table parseRuntimeZipAsset builds from an archive's member
\* names, resolveBlobUrl(member.name, table) returns that member's object
\* URL, for every member of the archive.
C7_ResolveRoundTrip ==
    zipResolve.op = "resolve" =>
        \A k \in 1..Len(allEntries(zipArchive)) :
            allEntries(zipArchive)[k].name = zipResolve.request =>
                zipResolve.result = entryUrls[k]

\* The words a message contains, of the two the validation is known by.
MessageWords(msg) ==
    CASE msg = MsgMissingFbx -> {"missing"}
      [] msg = MsgExactlyOne -> {"exactly one"}
      [] OTHER -> {}

\* The non-directory entries whose name ends in .fbx, in any case.
FbxMemberCount ==
    Cardinality({k \in 1..Len(zipArchive) :
                    /\ ~zipArchive[k].dir
                    /\ EndsWith(ToLowerCase(zipArchive[k].name), FbxExtension)})

\* C10: parseRuntimeZipAsset goes on to extract a readable archive only if
\* it holds exactly one non-directory entry with extension .fbx; with none
\* it fails with a message containing 'missing', with two or more with a
\* message containing 'exactly one', both before any object URL is created.
C10_ExactlyOneFbx ==
    /\ zipPc \in {"entries", "parsing", "done"} => FbxMemberCount = 1
    /\ (zipFileOk /\ zipPc # "loadAsync" /\ FbxMemberCount = 0) =>
          /\ zipPc = "failed"
          /\ "missing" \in MessageWords(zipError)
          /\ entryUrls = <<>>
    /\ (zipFileOk /\ zipPc # "loadAsync" /\ FbxMemberCount > 1) =>
          /\ zipPc = "failed"
          /\ "exactly one" \in MessageWords(zipError)
          /\ entryUrls = <<>>

\* An archive with two .fbx entries has been refused.
C10_Witness ==
    /\ zipPc = "failed"
    /\ FbxMemberCount = 2
    /\ zipError = MsgExactlyOne


Range(seq) == {seq[k] : k \in 1..Len(seq)}

\* The pairs of loadModelPack calls with the same id that both returned a
\* pack with no dispose() between the start of the first and the return
\* of the second.
SameIdPairs ==
    {pair \in (1..Len(loads)) \X (1..Len(loads)) :
        /\ pair[1] < pair[2]
        /\ loads[pair[1]].method = "loadModelPack"
        /\ loads[pair[2]].method = "loadModelPack"
        /\ loads[pair[1]].id = loads[pair[2]].id
        /\ loads[pair[1]].pc = "done"
        /\ loads[pair[2]].pc = "done"
        /\ loads[pair[2]].disposedAtEnd = loads[pair[1]].disposedAtStart}

\* C3: two loadModelPack(id) calls with the same id and no dispose() in
\* between return the same LoadedFbxPack instance, and the FBX fetch for
\* that id happens at most once.
C3_SameInstanceOneFetch ==
    \A pair \in SameIdPairs :
        /\ loads[pair[1]].pack.obj = loads[pair[2]].pack.obj
        /\ ~(loads[pair[1]].fetched /\ loads[pair[2]].fetched)

\* The release callbacks passed to registerRuntimePack before the first
\* dispose().
RegisteredBeforeDispose == {k \in 1..Len(callbacks) : callbacks[k].disposedBefore = 0}

\* C4: when dispose() has run, every release callback registered before
\* the first dispose() has been invoked exactly once and
\* getLoadedClipPacks() is empty.
C4_DisposeReleasesOnce ==
    [][LibDispose =>
          /\ \A k \in RegisteredBeforeDispose : callbacks'[k].calls = 1
          /\ LoadedPacks(clipEntries', clipCache') = <<>>]_vars

\* C8: every entry that has a loaded pack is of kind 'model_with_clip'
\* exactly when its pack has a skinned mesh.
C8_KindFromGraph ==
    \A loaded \in Range(LoadedPacks(modelEntries, modelCache))
                     \cup Range(LoadedPacks(clipEntries, clipCache)) :
        (loaded.entry.kind = "model_with_clip") <=> loaded.pack.hasSkinnedMesh

\* C9: the id a registerRuntimePack call returns is the id of no entry
\* that existed before the call, manifest-declared or runtime, and of no
\* cached pack.
C9_RuntimeIdUnique ==
    libCall.op = "registerRuntimePack" =>
        /\ libCall.id \notin libCall.idsBefore
        /\ libCall.id \notin libCall.cachedBefore


(***************************************************************************)
(* Further claims about CharacterSlot, checked under SpecSlot              *)
(***************************************************************************)

\* The number of clips of the pack a loadModelPack call was given.
LoadedClipCount == Len(PackObjs[slotCall.pack].clips)

\* C11 (as stated): after loadModelPack with a pack of n >= 1 clips the
\* slot has n options and n actions and the active clip is the clip at
\* index 0 of the pack, 'model:<packId>:0'; with n = 0 the active clip id
\* stays empty.
C11_FirstClipAsStated ==
    slotCall.op = "loadModelPack" =>
        /\ Len(animationOptions) = LoadedClipCount
        /\ Cardinality(DOMAIN actions) = LoadedClipCount
        /\ LoadedClipCount >= 1 => activeClipId = ClipId("model", slotCall.packId, 0)
        /\ LoadedClipCount = 0 => activeClipId = NoClip

\* C11 (amended): after loadModelPack with a pack of n >= 1 clips the slot
\* has n options and n actions, and the active clip is the model clip whose
\* label comes first in label order (the earliest in the pack among equal
\* labels), playing; with n = 0 the active clip id stays empty.
C11_FirstOptionPlayed ==
    slotCall.op = "loadModelPack" =>
        /\ Len(animationOptions) = LoadedClipCount
        /\ Cardinality(DOMAIN actions) = LoadedClipCount
        /\ LoadedClipCount >= 1 =>
              /\ \E a \in 1..LoadedClipCount :
                    /\ animationOptions[a].id = activeClipId
                    /\ animationOptions[a].id = ClipId("model", slotCall.packId, a - 1)
                    /\ \A k \in 1..LoadedClipCount :
                          LET order == localeCompare(animationOptions[a].label,
                                                     animationOptions[k].label)
                          IN  order < 0 \/ (order = 0 /\ a <= k)
              /\ mixerActions[actions[activeClipId]].state = "playing"
        /\ LoadedClipCount = 0 => activeClipId = NoClip

\* A pack whose second clip has the first label was loaded, and that clip
\* is the active one.
C11_Witness ==
    /\ slotCall.op = "loadModelPack"
    /\ LoadedClipCount = 2
    /\ activeClipId = ClipId("model", slotCall.packId, 1)


\* C12: attachClipPack returns [] and leaves the slot's options, actions,
\* attached-pack set, active clip and running actions unchanged when the
\* slot has no model, when the pack id is already attached or when the
\* pack is incompatible; a call that returned new ids leaves the pack id
\* attached, so that the same call made again is such a no-op.
C12_RefusedAttachIsNoOp ==
    [][slotCall'.op = "attachClipPack" =>
          /\ (\/ modelRoot = NoModel
              \/ slotCall'.packId \in attachedClipPackIds
              \/ AttachIncompatible(slotCall')) =>
                 /\ slotCall'.ret = <<>>
                 /\ UNCHANGED <<animationOptions, actions, attachedClipPackIds,
                                activeClipId, mixerActions>>
          /\ slotCall'.ret # <<>> => slotCall'.packId \in attachedClipPackIds']_vars

\* A compatible pack was attached a second time under the same id.
C12_Witness ==
    /\ slotCall.op = "attachClipPack"
    /\ slotCall.wasAttached
    /\ ~AttachIncompatible(slotCall)
    /\ PackObjs[slotCall.pack].clips # <<>>
    /\ slotCall.ret = <<>>


\* C13: playClip returns false for every clip id that is not a registered
\* action of the slot, and then leaves the active clip id and all running
\* actions unchanged.
C13_UnknownClipRefused ==
    [][(slotCall'.op = "playClip" /\ slotCall'.clipId \notin DOMAIN actions) =>
          /\ slotCall'.ret = FALSE
          /\ UNCHANGED <<activeClipId, mixerActions, actions, animationOptions>>]_vars

\* With a model loaded and a clip playing, playClip was refused for the id
\* of a clip of another model pack.
C13_Witness ==
    /\ slotCall.op = "playClip"
    /\ slotCall.ret = FALSE
    /\ modelRoot # NoModel
    /\ activeClipId # NoClip
    /\ slotCall.clipId[1] = "model"
    /\ slotCall.clipId[2] # modelPackId

\* C14: playClip with the id of the clip that is already active returns
\* true and makes no transition: no action is stopped, reset or faded and
\* the active clip id is unchanged, for either value of the immediate flag.
C14_SameClipNoTransition ==
    [][(slotCall'.op = "playClip" /\ slotCall'.clipId = activeClipId) =>
          /\ slotCall'.ret = TRUE
          /\ UNCHANGED <<activeClipId, mixerActions>>]_vars

\* playClip(activeClipId, false) returned true while the cross-fade that
\* an earlier call began was still under way: the call itself began none.
C14_Witness ==
    /\ slotCall.op = "playClip"
    /\ slotCall.ret
    /\ ~slotCall.immediate
    /\ slotCall.clipId = activeClipId
    /\ \E c \in DOMAIN mixerActions :
           mixerActions[c].state = "fading" /\ mixerActions[c].fade < CrossFadeTicks
    /\ \A c \in DOMAIN mixerActions :
           mixerActions[c].state = "fading" => mixerActions[c].fade < CrossFadeTicks


\* What getAnimationOptions() returns in the current state.
SortedOptions == getAnimationOptions(animationOptions)

\* The registered options had the attached clip packs been attached in
\* another order: the model's options, then the options of the clip packs
\* with those of the pack attached first moved to the end.
RegisteredOtherwise ==
    LET IsModel(o) == o.source = "model"
        IsClip(o) == o.source = "clip_pack"
        clipOptions == SelectSeq(animationOptions, IsClip)
        OfFirst(o) == o.packId = clipOptions[1].packId
        NotOfFirst(o) == o.packId # clipOptions[1].packId
    IN  IF clipOptions = <<>> THEN animationOptions
        ELSE SelectSeq(animationOptions, IsModel)
                 \o SelectSeq(clipOptions, NotOfFirst)
                 \o SelectSeq(clipOptions, OfFirst)

\* The position at which an option was registered.
RegisteredAt(option) ==
    CHOOSE k \in 1..Len(animationOptions) : animationOptions[k].id = option.id

\* `sorted` holds every registered option exactly once, model options
\* before clip-pack options, each group in label order.
SortedByGroupAndLabel(sorted) ==
    /\ Len(sorted) = Len(animationOptions)
    /\ \A k \in 1..Len(animationOptions) :
           Cardinality({j \in 1..Len(sorted) : sorted[j] = animationOptions[k]}) = 1
    /\ \A i, j \in 1..Len(sorted) :
           i < j =>
              /\ ~(sorted[i].source = "clip_pack" /\ sorted[j].source = "model")
              /\ sorted[i].source = sorted[j].source =>
                     localeCompare(sorted[i].label, sorted[j].label) <= 0

\* Options of one group with equal labels stand in `sorted` in the order of
\* their registration.
TiesInRegistrationOrder(sorted) ==
    \A i, j \in 1..Len(sorted) :
        (/\ i < j
         /\ sorted[i].source = sorted[j].source
         /\ localeCompare(sorted[i].label, sorted[j].label) = 0) =>
            RegisteredAt(sorted[i]) < RegisteredAt(sorted[j])

\* No two options of one group carry the same label.
LabelsDistinct ==
    \A i, j \in 1..Len(animationOptions) :
        (i # j /\ animationOptions[i].source = animationOptions[j].source) =>
            localeCompare(animationOptions[i].label, animationOptions[j].label) # 0

\* C15 (as stated): getAnimationOptions returns every registered option
\* exactly once, model options before clip-pack options and each group in
\* label order, and the same list whatever the order of registration.
C15_SortedAsStated ==
    /\ SortedByGroupAndLabel(SortedOptions)
    /\ getAnimationOptions(RegisteredOtherwise) = SortedOptions

\* C15 (amended): getAnimationOptions returns every registered option
\* exactly once, model options before clip-pack options and each group in
\* label order; options of one group with equal labels keep the order of
\* their registration, so the list is the same whatever the order of
\* registration when the labels of each group are distinct.
C15_SortedStable ==
    /\ SortedByGroupAndLabel(SortedOptions)
    /\ TiesInRegistrationOrder(SortedOptions)
    /\ LabelsDistinct => getAnimationOptions(RegisteredOtherwise) = SortedOptions

\* Two clip packs with distinct labels are attached to a model whose own
\* clip sorts after them by label alone, and the other order of attachment
\* registers the options in another order.
C15_Witness ==
    /\ Cardinality(attachedClipPackIds) = 2
    /\ LabelsDistinct
    /\ RegisteredOtherwise # animationOptions
    /\ \E i, j \in 1..Len(animationOptions) :
           /\ animationOptions[i].source = "model"
           /\ animationOptions[j].source = "clip_pack"
           /\ localeCompare(animationOptions[i].label, animationOptions[j].label) > 0


(***************************************************************************)
(* Claims about computeSkeletonSignature, checked under SpecSig            *)
(***************************************************************************)

\* The names of a list after trim and lower-case, empty names dropped.
TrimmedLowerNames(list) ==
    LET Named(name) == ToLowerCase(Trim(name)) # <<>>
        kept == SelectSeq(list, Named)
    IN  [k \in 1..Len(kept) |-> ToLowerCase(Trim(kept[k]))]

\* The ordered bone-name list of a graph: that of the skeleton of its first
\* skinned mesh, or of its bone nodes when no skinned mesh yields a name.
OrderedBoneNames(graph) ==
    IF graph.skinnedMeshes # <<>> /\ TrimmedLowerNames(graph.skinnedMeshes[1]) # <<>>
    THEN TrimmedLowerNames(graph.skinnedMeshes[1])
    ELSE TrimmedLowerNames(graph.boneNodes)

\* C16: computeSkeletonSignature returns equal strings for two graphs whose
\* ordered bone-name lists are identical and non-empty after trim and
\* lower-case, and null for a graph with no skinned mesh and no bone node.
C16_SignatureOfEqualBones ==
    sigPc = "second" =>
        /\ (/\ OrderedBoneNames(sigGraphs[1]) = OrderedBoneNames(sigGraphs[2])
            /\ OrderedBoneNames(sigGraphs[1]) # <<>>) =>
               /\ sigResults[1] = sigResults[2]
               /\ sigResults[1] # SigNull
        /\ \A g \in 1..2 :
               (sigGraphs[g].skinnedMeshes = <<>> /\ sigGraphs[g].boneNodes = <<>>) =>
                   sigResults[g] = SigNull

\* Signatures were computed for a skinned graph and a graph of bone nodes
\* whose names differ in case and blanks only, and for neither the result
\* is null.
C16_Witness ==
    /\ sigPc = "second"
    /\ sigGraphs[1].skinnedMeshes # <<>>
    /\ sigGraphs[2].skinnedMeshes = <<>>
    /\ sigGraphs[1].skinnedMeshes[1] # sigGraphs[2].boneNodes
    /\ OrderedBoneNames(sigGraphs[1]) = OrderedBoneNames(sigGraphs[2])
    /\ Len(OrderedBoneNames(sigGraphs[1])) = 2
    /\ sigResults[1] = sigResults[2]

\* this.skeletonSignature && signature && this.skeletonSignature === signature
\* for signatures that are sequences of characters
SignaturesCompatible(a, b) == a # SigNull /\ b # SigNull /\ a # <<>> /\ b # <<>> /\ a = b

\* C17: two packs with non-null signatures are treated as compatible if
\* and only if their ordered bone-name lists are equal element by element,
\* also when a bone name contains the delimiter '|'.
C17_CompatibleIffSameBones ==
    (sigPc = "second" /\ sigResults[1] # SigNull /\ sigResults[2] # SigNull) =>
        (SignaturesCompatible(sigResults[1], sigResults[2])
            <=> OrderedBoneNames(sigGraphs[1]) = OrderedBoneNames(sigGraphs[2]))


(***************************************************************************)
(* Claims about the archive sniffer, checked under SpecSniff               *)
(***************************************************************************)

\* The blob has at least 4 bytes, starts with 'PK', and its bytes 2..3 are
\* one of the pairs.
StartsWithPkAnd(pairs) ==
    /\ Len(sniffBlob) >= 4
    /\ sniffBlob[1] = 80
    /\ sniffBlob[2] = 75
    /\ <<sniffBlob[3], sniffBlob[4]>> \in pairs

\* C20 (as stated): blobHasZipSignature returns true if and only if the
\* blob has at least 4 bytes, bytes 0..1 are 'PK' and bytes 2..3 are the
\* local-file-header (03 04), central-directory (01 02) or
\* end-of-central-directory (05 06) pair.
C20_SnifferAsStated ==
    sniffPc = "done" =>
        (sniffResult <=> StartsWithPkAnd({<<3, 4>>, <<1, 2>>, <<5, 6>>}))

\* C20 (amended): blobHasZipSignature returns true if and only if the blob
\* has at least 4 bytes, bytes 0..1 are 'PK' and bytes 2..3 are the
\* local-file-header (03 04), end-of-central-directory (05 06) or
\* spanned-archive (07 08) pair; the central-directory pair (01 02) is
\* refused.
C20_SnifferPairs ==
    sniffPc = "done" =>
        (sniffResult <=> StartsWithPkAnd({<<3, 4>>, <<5, 6>>, <<7, 8>>}))

\* A blob of more than 4 bytes that starts with 'PK' 07 08 was accepted.
C20_Witness ==
    /\ sniffPc = "done"
    /\ Len(sniffBlob) > 4
    /\ SubSeq(sniffBlob, 1, 4) = <<80, 75, 7, 8>>
    /\ sniffResult


(***************************************************************************)
(* Further claims about CharacterLibrary, checked under SpecLib            *)
(***************************************************************************)

\* The calls that throw in a step.
NewlyFailed ==
    {k \in 1..Len(loads') :
        loads'[k].pc = "failed" /\ (k > Len(loads) \/ loads[k].pc # "failed")}

\* The pairs of calls of one method with the same id of which the first
\* failed in loadFbxPackFromUrl before the second was made.
RetriedAfterFailure(calls) ==
    {pair \in (1..Len(calls)) \X (1..Len(calls)) :
        /\ pair[1] < pair[2]
        /\ calls[pair[1]].method = calls[pair[2]].method
        /\ calls[pair[1]].id = calls[pair[2]].id
        /\ calls[pair[1]].pc = "failed"
        /\ calls[pair[1]].error = MsgFetchFailed
        /\ pair[1] \in calls[pair[2]].after}

C19_DisposeDoesNotThrow ==
    libCall.op = "dispose" => ~libCall.threw


\* The ids of the registered options.
OptionIds == {animationOptions[k].id : k \in 1..Len(animationOptions)}

\* Nothing of any model is held by the slot.
SlotHoldsNothing ==
    /\ modelRoot = NoModel
    /\ ~mixer
    /\ modelPackId = ""
    /\ skeletonSignature = NULL
    /\ animationOptions = <<>>
    /\ actions = EmptyMap
    /\ mixerActions = EmptyMap
    /\ attachedClipPackIds = {}
    /\ activeClipId = NoClip

\* C24: between operations the slot holds nothing, or one model with only
\* that model's options: right after loadModelPack replaced a model, the
\* options, actions and mixer actions are those of the new pack's clips
\* and no clip pack is attached; afterwards every model option is of the
\* loaded model and every clip-pack option of a pack attached to it.
C24_ReplacedModelTornDown ==
    /\ modelRoot = NoModel => SlotHoldsNothing
    /\ modelRoot # NoModel =>
          /\ DOMAIN actions = OptionIds
          /\ \A k \in 1..Len(animationOptions) :
                 LET option == animationOptions[k]
                 IN  /\ option.source = "model" =>
                            option.packId = modelPackId /\ option.clip[1] = modelRoot
                     /\ option.source = "clip_pack" =>
                            option.packId \in attachedClipPackIds
    /\ slotCall.op = "loadModelPack" =>
          /\ modelRoot = slotCall.pack
          /\ modelPackId = slotCall.packId
          /\ attachedClipPackIds = {}
          /\ OptionIds = {ClipId("model", modelPackId, i - 1) :
                              i \in 1..Len(PackObjs[modelRoot].clips)}
          /\ \A clip \in DOMAIN mixerActions : clip[1] = modelRoot

\* A model with an attached clip pack was replaced by another model.
C24_Witness ==
    /\ slotCall.op = "loadModelPack"
    /\ slotCall.replaced \notin {"", slotCall.packId}
    /\ slotCall.hadAttached # {}
    /\ animationOptions # <<>>

\* The load calls whose loadFbxPackFromUrl resolves in this step.
NewlyLoaded == {k \in 1..Len(loads) : loads[k].pc = "fetch" /\ loads'[k].pc = "done"}

\* The load calls made in this step for an id that is registered and cached.
NewlyServedFromCache ==
    {k \in (Len(loads) + 1)..Len(loads') :
        /\ loads'[k].entry # 0
        /\ loads'[k].id \in DOMAIN CacheOf(loads'[k].method)}

\* Three calls for one id: the first two overlap and both fetch, the third
\* is made after both have returned.
RacedThenLoaded ==
    {t \in (1..Len(loads)) \X (1..Len(loads)) \X (1..Len(loads)) :
        /\ t[1] < t[2] /\ t[2] < t[3]
        /\ \A k \in {t[2], t[3]} :
               loads[k].method = loads[t[1]].method /\ loads[k].id = loads[t[1]].id
        /\ t[1] \notin loads[t[2]].after
        /\ \A k \in {t[1], t[2]} :
               loads[k].fetched /\ loads[k].pc = "done" /\ k \in loads[t[3]].after}

C28_NoRepopulationAfterDispose ==
    (/\ disposeCalls >= 1
     /\ runtimeCounter = 0
     /\ \A k \in 1..Len(loads) :
            loads[k].disposedAtStart = 0 /\ loads[k].pc \in {"done", "failed"})
        => /\ modelCache = EmptyMap
           /\ clipCache = EmptyMap
           /\ getLoadedClipPacks = <<>>

(***************************************************************************)
\* C27: between operations of a slot the action ids are the option ids,
\* the active clip id is empty or one of them, and there is a mixer exactly
\* when there is a model; without a model (at construction, after dispose()
\* and after a loadModelPack that threw) there are no options, no actions
\* and no attached clip packs, no clip is active and the skeleton signature
\* is null.
C27_SlotStateConsistent ==
    /\ DOMAIN actions = OptionIds
    /\ activeClipId = NoClip \/ activeClipId \in OptionIds
    /\ mixer <=> modelRoot # NoModel
    /\ slotCall.op \in {"none", "dispose", "loadModelPackThrew"} => modelRoot = NoModel
    /\ modelRoot = NoModel =>
          /\ animationOptions = <<>>
          /\ actions = EmptyMap
          /\ attachedClipPackIds = {}
          /\ activeClipId = NoClip
          /\ skeletonSignature = NULL

\* A model with an active clip was to be replaced and the replacement threw.
C27_Witness ==
    /\ slotCall.op = "loadModelPackThrew"
    /\ slotCall.replaced # ""
    /\ modelRoot = NoModel


\* The actions of the mixer that are running: started and neither stopped
\* nor faded out.
PlayingActions(mix) ==
    {c \in DOMAIN mix : mix[c].state \in {"playing", "fading"}}

\* C26: a playClip(id, immediate = true) that returns true for a clip other
\* than the active one, and any successful playClip made while no clip is
\* active, leaves the action of id as the only running action of the slot.
C26_ImmediatePlaysAlone ==
    [][(/\ slotCall'.op = "playClip"
        /\ slotCall'.ret
        /\ slotCall'.clipId \in DOMAIN actions
        /\ \/ activeClipId \notin DOMAIN actions
           \/ /\ slotCall'.immediate
              /\ actions[activeClipId] # actions[slotCall'.clipId])
       => PlayingActions(mixerActions') = {actions[slotCall'.clipId]}]_vars


(* Claims about responseToZipFile, checked under SpecResponse              *)
(***************************************************************************)

\* C21: responseToZipFile returns a File only for a body that passes the
\* magic-number check whenever the response was not declared an archive
\* by application/zip or application/x-zip-compressed: the permissive
\* application/octet-stream alone does not make a body an archive.
C21_OctetStreamIsSniffed ==
    (/\ response.pc = "done"
     /\ \A type \in ArchiveMimeTypes :
            ~Includes(response.contentType, type) /\ ~Includes(response.blobType, type))
        => blobHasZipSignature(response.body)


(***************************************************************************)
(* Claims about the mounted app, checked under SpecApp                     *)
(***************************************************************************)

SelectedSlots == {i \in SlotIndices : app.selected[i]}

\* C22: in every reachable state of the mounted app at most one slot has
\* selected = TRUE, and when selectedSlotIndex is not null that slot is the
\* one at selectedSlotIndex.
C22_SingleSelection ==
    app.pc # "idle" =>
        /\ Cardinality(SelectedSlots) <= 1
        /\ app.selectedSlotIndex # NoSlot => SelectedSlots \subseteq {app.selectedSlotIndex}


\* The pairs (first, second) of model changes requested for one slot, the
\* second while the load of the first was awaited and no other load for
\* that slot was, both applied, with no later request for that slot.
OverlappingModelChanges ==
    {pair \in (1..Len(app.calls)) \X (1..Len(app.calls)) :
        LET first == app.calls[pair[1]]
            second == app.calls[pair[2]]
            OnSlot(ks) == {k \in ks : app.calls[k].slot = first.slot}
        IN  /\ pair[1] < pair[2]
            /\ first.origin = "change" /\ second.origin = "change"
            /\ second.slot = first.slot
            /\ OnSlot(first.pendingAtStart) = {}
            /\ OnSlot(second.pendingAtStart) = {pair[1]}
            /\ OnSlot(pair[2]..Len(app.calls)) = {pair[2]}
            /\ first.pc = "applied" /\ second.pc = "applied"}

\* C29: when two model changes are requested for one slot, the second
\* while the first load is awaited, the slot holds the model requested
\* second once both have been applied.
C29_LatestRequestWins ==
    \A pair \in OverlappingModelChanges :
        app.model[app.calls[pair[1]].slot] = app.calls[pair[2]].model


(***************************************************************************)
(* Claims about resolveBlobUrl, checked under SpecResolve                  *)
(***************************************************************************)

\* The request decoded, cut at '?' and '#', and normalized.
NormalizedRequest ==
    normalizeAssetKey(BeforeFirst(BeforeFirst(safeDecode(resolve.request), "?"), "#"))

\* The candidate keys in the order full normalized path, basename,
\* remainder after the last '.fbm/' marker, basename of that remainder;
\* empty strings are no candidates.
CandidateKeys ==
    LET marker == LastIndexOf(NormalizedRequest, FbmMarker)
        remainder == Drop(NormalizedRequest, marker + Len(FbmMarker))
        keys == <<NormalizedRequest, LastSegment(NormalizedRequest)>>
                    \o (IF marker >= 0 THEN <<remainder, LastSegment(remainder)>> ELSE <<>>)
        NonEmpty(key) == key # <<>>
    IN  SelectSeq(keys, NonEmpty)

\* The positions of the candidates that are keys of the table.
PresentCandidates ==
    {c \in 1..Len(CandidateKeys) :
        \E k \in 1..Len(resolve.table) : resolve.table[k][1] = CandidateKeys[c]}

\* The entries whose key ends in '/<basename>'.
TailEntries ==
    {k \in 1..Len(resolve.table) :
        /\ LastSegment(NormalizedRequest) # <<>>
        /\ EndsWith(resolve.table[k][1], <<"/">> \o LastSegment(NormalizedRequest))}

\* C23: for a request that is not itself a blob: URL, resolveBlobUrl
\* returns the entry of the first candidate key present in the table, in
\* the order full normalized path, basename, remainder after the last
\* '.fbm/', basename of that remainder; with no candidate present, the
\* entry of a key ending in '/<basename>'; with nothing matching, the
\* request unchanged.
C23_FirstCandidateWins ==
    (resolve.pc = "done" /\ ~StartsWith(resolve.request, BlobScheme)) =>
        IF PresentCandidates # {}
        THEN LET first == CHOOSE c \in PresentCandidates : \A d \in PresentCandidates : c <= d
                 entry == CHOOSE k \in 1..Len(resolve.table) :
                              resolve.table[k][1] = CandidateKeys[first]
             IN  resolve.result = resolve.table[entry][2]
        ELSE IF TailEntries # {}
        THEN \E k \in TailEntries : resolve.result = resolve.table[k][2]
        ELSE resolve.result = resolve.request


(***************************************************************************)
(* Claims about loadHdri, checked under SpecHdri                           *)
(***************************************************************************)

\* The loadHdri calls that have returned or thrown.
SettledHdriCalls ==
    {k \in 1..Len(hdri.calls) : hdri.calls[k].pc \in {"returned", "threw"}}

\* C30: the object URL of every loadHdri call that has returned or thrown
\* is the retained hdriObjectUrl or has been revoked, no object URL has
\* been revoked more than once, and a call that throws leaves the loaded
\* HDRI textures, settings and URL as they were, neither disposed nor
\* revoked.
C30_ObjectUrlsAccountedFor ==
    /\ \A k \in SettledHdriCalls :
           \/ hdri.calls[k].objectUrl = hdri.hdriObjectUrl
           \/ hdri.revoked[hdri.calls[k].objectUrl] >= 1
    /\ \A url \in 1..hdri.created : hdri.revoked[url] <= 1
    /\ hdri.last.op = "threw" =>
           /\ hdri.hdriObjectUrl = hdri.last.hdriObjectUrl
           /\ hdri.hdriBackgroundTexture = hdri.last.hdriBackgroundTexture
           /\ hdri.hdriEnvironmentTexture = hdri.last.hdriEnvironmentTexture
           /\ hdri.hdriSettings = hdri.last.hdriSettings
           /\ hdri.hdriObjectUrl # NoUrl =>
                  hdri.revoked[hdri.hdriObjectUrl] = hdri.last.revoked[hdri.hdriObjectUrl]
           /\ {hdri.hdriBackgroundTexture, hdri.hdriEnvironmentTexture}
                  \cap (hdri.disposedTextures \ hdri.last.disposedTextures) = {}

=============================================================================
